---- MODULE Spec2Model ----
(***************************************************************************)
(* EverMemoryArchive: the ActorWorker (input queue, run serialisation,     *)
(* preemption, buffer-write chain) and the Agent main loop it drives.      *)
(*                                                                         *)
(* Every await of the code is a point where another task may run; every    *)
(* synchronous broadcast (setStatus, emitEvent) is a point where a         *)
(* subscriber callback may call work() re-entrantly.  One action of the    *)
(* model is the synchronous code between two such points.                  *)
(***************************************************************************)
EXTENDS Integers, Sequences, FiniteSets, TLC

\* ---------------------------------------------------------------- bounds
\* Number of valid work() calls made by the environment.
MaxInputs == 2
\* config.agent.maxSteps: the step bound of Agent.mainLoop.
maxSteps == 1
\* LLM answers that carry tool calls, over the whole behaviour; once they are
\* used up the LLM stub answers without tool calls or fails.
MaxToolTurns == 1
\* Executions of a registered tool that throw or return success:false, over
\* the whole behaviour.
MaxToolFailures == 1

\* Length of the longest input list passed to work().
MaxContents == 2
\* work() calls with an invalid input list, over the whole behaviour.
MaxInvalid == 1
\* Agent.run() calls made directly by the environment.
MaxRuns == 2
\* Calls of the loop continuation by one callback.
MaxLoopCalls == 2
\* abort() calls made directly by the environment during one run() activation.
MaxAborts == 2
\* Number of subscriber callbacks the environment registers.
MaxSubs == 2
\* Callbacks that throw, over the whole behaviour.
MaxThrows == 1
\* Number of pieces (text or placeholder) of the longest system prompt template.
MaxTemplate == 3
\* Number of BufferMessages written to the buffer in the prompt-building behaviours.
MaxBuffered == 11
\* Iterators asked of one timed iterable.
MaxIterators == 2
\* Fires of the timed callbacks, over all schedules.
MaxFires == 3
\* next() calls, over all iterators.
MaxNextCalls == 3
\* addUserMessage calls on the summarising context manager.
MaxUsers == 2
\* run() calls of the summarising agent.
MaxSumRuns == 4
\* Completed summarisations.
MaxSummaries == 2
\* ContextManager.tokenLimit, in units of one message's estimated tokens.
tokenLimit == 4
\* Length of the longest string argument passed to EmaReplyTool.execute.
MaxStr == 2
\* Largest entity id passed to or generated by MongoUserDB.
MaxEntityId == 2
\* Number of callers of MongoUserOwnActorDB whose calls may be in flight together.
MaxCallers == 2
\* llm.generate calls made by the main loop in the call-chain behaviours.
MaxGenCalls == 2
\* Number of properties of the largest tool schema.
MaxProps == 2
\* Number of keys of the largest args object of a tool call.
MaxArgs == 2
\* Length of the longest message list passed to llm.generate.
MaxGenMessages == 3

\* ------------------------------------------------------ program constants
\* getBuffer(10) in buildSystemPrompt.
BufferWindow == 10

\* Tool names an LLM response may carry: the structured-reply tool, an
\* ordinary registered tool, and a name that is in no tool set.
ToolNames == {"ema_reply", "tool", "nope"}
\* toolDict: the names of config.baseTools.
toolDict == {"ema_reply", "tool"}

\* ----------------------------------------------------------------- data
NoResult == [success |-> FALSE, content |-> FALSE, error |-> FALSE]

\* bufferMessageToUserMessage: the user message of input batch i.
UserMessage(i) ==
  [role |-> "user", id |-> i, name |-> "", toolCalls |-> <<>>, result |-> NoResult]

\* LLMResponse.message with its tool calls.
ModelMessage(calls) ==
  [role |-> "model", id |-> 0, name |-> "", toolCalls |-> calls, result |-> NoResult]

\* ContextManager.addToolMessage: {role:"tool", id, name, result}.
ToolMessage(call, res) ==
  [role |-> "tool", id |-> call.id, name |-> call.name, toolCalls |-> <<>>, result |-> res]

\* Mutant of UnknownToolResult: the result carries no error.
UnknownToolResultNoError == [success |-> FALSE, content |-> FALSE, error |-> FALSE]

\* ToolResult of an unknown tool name.
UnknownToolResult == [success |-> FALSE, content |-> FALSE, error |-> TRUE]
\* ToolResult of a tool that threw or returned success:false.
FailedToolResult == [success |-> FALSE, content |-> FALSE, error |-> TRUE]
\* ToolResult of a tool that returned success:true with content.
OkToolResult == [success |-> TRUE, content |-> TRUE, error |-> FALSE]
\* Mutant of StrippedToolResult: the content is left on the result.
ContentKeptToolResult == [success |-> TRUE, content |-> TRUE, error |-> FALSE]
\* ToolResult of ema_reply after the agent set result.content = undefined.
StrippedToolResult == [success |-> TRUE, content |-> FALSE, error |-> FALSE]

\* The tool calls of an LLM response: names in emitted order, id = position.
ToolCallsOf(names) == [k \in 1..Len(names) |-> [id |-> k, name |-> names[k]]]

\* The tool-call lists the LLM stub answers with: none, one structured
\* reply, a tool and then the reply, an unknown tool and then a known one.
Responses == {ToolCallsOf(ns) : ns \in {<<>>, <<"ema_reply">>, <<"tool", "ema_reply">>, <<"nope", "tool">>}}

\* The errors llm.generate may reject with besides the cancel error: the
\* retry wrapper's RetryExhaustedError, and any other Error.
LLMErrors == {"RetryExhausted", "Error"}

\* AgentState | null.
NullState == [present |-> FALSE, systemPrompt |-> <<>>, messages |-> <<>>]

\* bufferMessageFromUser / bufferMessageFromEma.
UserBuffer(i) == [kind |-> "user", id |-> i]
EmaBuffer(k) == [kind |-> "ema", id |-> k]

\* Array.prototype.slice(-count).
SliceLast(s, count) ==
  IF Len(s) <= count THEN s ELSE SubSeq(s, Len(s) - count + 1, Len(s))

\* ActorEvent records.
MessageEvent(i) == [type |-> "message", run |-> 0, id |-> i, msg |-> "Received input"]
RunFinishedEvent(r, m) == [type |-> "runFinished", run |-> r, id |-> 0, msg |-> m]
EmaReplyEvent(r, k) == [type |-> "emaReplyReceived", run |-> r, id |-> k, msg |-> ""]

\* The types of the Content items of an input list: text, and one that is not.
ContentTypes == {"text", "image"}

\* The input lists passed to work(), as the types of their items.
InputShapes == UNION {[1..n -> ContentTypes] : n \in 0..MaxContents}

\* The subscriber callbacks.
Subs == 1..MaxSubs

\* ------------------------------------------------------------ generic helpers
RECURSIVE SelectIdx(_, _, _)
\* The elements of s at the indices k >= from that are in `set`, in order.
SelectIdx(s, from, set) ==
  IF from > Len(s) THEN <<>>
  ELSE IF from \in set THEN <<s[from]>> \o SelectIdx(s, from + 1, set)
  ELSE SelectIdx(s, from + 1, set)

RECURSIVE IsSubseqFrom(_, _, _, _)
IsSubseqFrom(a, i, b, j) ==
  IF i > Len(a) THEN TRUE
  ELSE IF j > Len(b) THEN FALSE
  ELSE IF a[i] = b[j] THEN IsSubseqFrom(a, i + 1, b, j + 1)
  ELSE IsSubseqFrom(a, i, b, j + 1)

\* a is an order-preserving subsequence of b.
IsSubseq(a, b) == IsSubseqFrom(a, 1, b, 1)

Range(s) == {s[k] : k \in 1..Len(s)}

VARIABLES
  \* ---- ActorWorker fields
  currentStatus,          \* "idle" | "preparing" | "running"
  queue,                  \* pending input batches (input ids)
  agentState,             \* cached AgentState or NullState
  hasEmaReplyInRun,
  currentRunPromise,      \* "null" | "pending" | "settled" | "rejected"
  processingQueue,
  resumeStateAfterAbort,
  buffer,                 \* _buffer
  eventStream,            \* EventHistory.events
  \* ---- bufferWritePromise chain
  writeChain,             \* then-callbacks not yet run, in chaining order
  writing,                \* messages inside addBuffer (after its await)
  bufferWritePromise,     \* state of the last settled link
  logged,                 \* number of "Failed to write buffer" log lines
  \* ---- processQueue activation
  procPc,                 \* position of the one processQueue activation
  batches,                \* its local variable
  processor,              \* the work() call whose processQueue is active
  waiters,                \* work() calls awaiting currentRunPromise
  \* ---- Agent fields and mainLoop activation
  agentStatus,            \* Agent.status
  abortRequested,
  agentPc,                \* position of mainLoop
  step,
  pendingCalls,           \* tool calls of the turn not yet answered
  \* ---- environment and observation
  nextInput,              \* id of the next work() call
  runId,                  \* number of runWithState calls so far
  inFlight,               \* runWithState promises not yet settled
  runs,                   \* per run: resumed?, preempted?
  resumedNext,            \* whether the run being prepared resumes
  handed,                 \* input ids in the order they became user messages
  handedAt,               \* input id -> run that received it (0: none yet)
  arrivedAt,              \* input id -> run in flight at arrival (0: none)
  returned,               \* input ids in the order their work() returned
  toolTurns,              \* LLM answers with tool calls so far
  toolFailures,           \* failed tool executions so far
  failedWrites,           \* messages whose addBuffer rejected
  \* ---- subscribers: EventHistory.eventIdx, the subscriber set, the calls in progress
  eventIdx,               \* EventHistory.eventIdx
  subscribers,            \* the Set of callbacks, in insertion order
  received,               \* subscriber -> the events arrays its callback was called with, concatenated
  lastStatus,             \* subscriber -> the status its callback was last called with ("": never called)
  stack,                  \* the synchronous calls in progress, innermost last
  thrown,                 \* number of callbacks that threw
  invalidCalls,           \* work() calls made with an empty list or a non-text item
  \* ---- Agent.run(callback) called directly
  runPc,                  \* "none" | "callback" (the callback runs) | "loop" (it awaits loop)
  called,                 \* the flag `called` of the run() activation
  loopCalls,              \* calls of the loop continuation in this run() activation
  loopErrors,             \* those of them that threw
  passed,                 \* the state passed to the latest loop call (0: none)
  aborts,                 \* abort() calls since this run() activation started
  \* ---- buildSystemPrompt called directly
  promptPc,               \* "idle" | "getBuffer" (awaiting getBuffer) | "done"
  template,               \* the systemPrompt argument, as tokens
  bufferWindow,           \* the local bufferWindow
  builtPrompt,            \* the string returned, as tokens
  \* ---- iterateTimed: one entry per iterator of the iterable
  started,                \* number of startTimed calls
  cancelled,              \* iterator -> tab.cancelled
  fired,                  \* iterator -> the dates passed to its startTimed callback
  timedList,              \* iterator -> the linked list head..tail, as a sequence
  resolveResult,          \* iterator -> whether resolveResult is set
  results,                \* iterator -> the results its next() calls returned, in order
  nextCalls,              \* number of next() calls
  clock,                  \* number of fires: the date of the latest fire
  \* ---- ContextManager with summarisation, and the Agent.run that drives it
  ctxMessages,            \* contextManager.messages
  apiTotalTokens,
  skipNextTokenCheck,
  sumPc,                  \* "idle" | "check" | "createSummary" | "llm"
  sumStep,                \* step of run()
  newMessages,            \* the local newMessages of summarizeMessages
  round,                  \* the loop variable i of summarizeMessages, from 1
  outcomes,               \* per round of this summarisation: how createSummary's LLM call ended
  sumRuns,                \* number of run() calls
  summaries,              \* number of summarisations that replaced the history
  entriesSince,           \* summarizeMessages calls since the last replacement (capped at 2)
  freshSince,             \* an LLM call has reported usage since the last replacement
  \* ---- EmaReplyTool.execute called directly
  replyPc,                \* "idle" | "called" | "done"
  replyArgs,              \* the arguments think, expression, action, response
  replyResult,            \* the ToolResult returned
  \* ---- MongoUserDB over the users collection
  usersColl,                 \* the documents of the collection, in insertion order
  counterSeq,             \* seq of the counter document, 0 before the first getNextId
  lastOp,                 \* the database call that returned last, with its result
  prevOp,                 \* the call that returned before it
  \* ---- MongoUserOwnActorDB over the user_own_actors collection
  relations,              \* the documents of the collection, in insertion order
  uniqueIndex,            \* createIndices has built the unique (userId, actorId) index
  relPc,                  \* per caller: "idle" | "find" | "insert" | "delete"
  relArg,                 \* per caller: the relation passed to the call in flight
  relResult,              \* per caller: how the last call settled
  \* ---- one llm.generate call on its way from mainLoop to the provider
  genPc,                  \* "idle" | "client" | "provider" | "settled"
  genArgs,                \* the arguments as the current callee receives them
  signalAborted,          \* abortController.signal.aborted
  genOutcome,             \* "none" | "response" | "AbortError"
  genCalls,               \* number of llm.generate calls made
  \* ---- the argument passing of one tool call
  argPc,                  \* "idle" | "executed"
  toolProps,              \* tool.parameters.properties
  callArgs,               \* toolCall.args
  positionalArgs          \* the arguments tool.execute was called with

\* A missing id (undefined), written as a number no entity has, and the
\* null of findOne.
Undefined == -1
Null == <<>>

\* No relation: the argument slot of a caller with no call in flight.
NoRelation == [userId |-> "", actorId |-> ""]

\* No llm.generate call is in progress.
NoArgs == [messages |-> 0, tools |-> "undefined", systemPrompt |-> "undefined",
           signal |-> "undefined"]

\* No call has returned yet.
NoOp == [op |-> "none", id |-> 0, ok |-> FALSE, doc |-> Null]

actorVars == <<currentStatus, queue, agentState, hasEmaReplyInRun,
               currentRunPromise, processingQueue, resumeStateAfterAbort>>
chainVars == <<buffer, writeChain, writing, bufferWritePromise, logged, failedWrites>>
procVars == <<procPc, batches, processor, waiters>>
agentVars == <<agentStatus, abortRequested, agentPc, step, pendingCalls>>
obsVars == <<nextInput, runId, inFlight, runs, resumedNext, handed, handedAt,
             arrivedAt, returned>>
envVars == <<toolTurns, toolFailures>>
subVars == <<eventIdx, subscribers, received, lastStatus, stack, thrown>>
runVars == <<runPc, called, loopCalls, loopErrors, passed, aborts>>
promptVars == <<promptPc, template, bufferWindow, builtPrompt>>
timedVars == <<started, cancelled, fired, timedList, resolveResult, results, nextCalls, clock>>
sumVars == <<ctxMessages, apiTotalTokens, skipNextTokenCheck, sumPc, sumStep, newMessages,
             round, outcomes, sumRuns, summaries, entriesSince, freshSince>>
replyVars == <<replyPc, replyArgs, replyResult>>
userDbVars == <<usersColl, counterSeq, lastOp, prevOp>>
relVars == <<relations, uniqueIndex, relPc, relArg, relResult>>
genVars == <<genPc, genArgs, signalAborted, genOutcome, genCalls>>
argVars == <<argPc, toolProps, callArgs, positionalArgs>>
libVars == <<promptVars, timedVars, sumVars, replyVars, userDbVars, relVars,
            genVars,
            argVars>>
progVars == <<actorVars, chainVars, procVars, agentVars, obsVars, envVars, eventStream, subVars,
              invalidCalls, runVars>>
vars == <<progVars, libVars>>

Init ==
  /\ currentStatus = "idle"
  /\ queue = <<>>
  /\ agentState = NullState
  /\ hasEmaReplyInRun = FALSE
  /\ currentRunPromise = "null"
  /\ processingQueue = FALSE
  /\ resumeStateAfterAbort = FALSE
  /\ buffer = <<>>
  /\ eventStream = <<>>
  /\ writeChain = <<>>
  /\ writing = {}
  /\ bufferWritePromise = "fulfilled"
  /\ logged = 0
  /\ procPc = "none"
  /\ batches = <<>>
  /\ processor = 0
  /\ waiters = <<>>
  /\ agentStatus = "idle"
  /\ abortRequested = FALSE
  /\ agentPc = "idle"
  /\ step = 0
  /\ pendingCalls = <<>>
  /\ nextInput = 1
  /\ runId = 0
  /\ inFlight = 0
  /\ runs = <<>>
  /\ resumedNext = FALSE
  /\ handed = <<>>
  /\ handedAt = [i \in 1..MaxInputs |-> 0]
  /\ arrivedAt = [i \in 1..MaxInputs |-> 0]
  /\ returned = <<>>
  /\ failedWrites = {}
  /\ toolTurns = 0
  /\ toolFailures = 0
  /\ eventIdx = 0
  /\ subscribers = <<>>
  /\ received = [s \in Subs |-> <<>>]
  /\ lastStatus = [s \in Subs |-> ""]
  /\ stack = <<>>
  /\ thrown = 0
  /\ invalidCalls = 0
  /\ runPc = "none"
  /\ called = FALSE
  /\ loopCalls = 0
  /\ loopErrors = 0
  /\ passed = 0
  /\ aborts = 0
  /\ promptPc = "idle"
  /\ template = <<>>
  /\ bufferWindow = <<>>
  /\ builtPrompt = <<>>
  /\ started = 0
  /\ cancelled = [i \in 1..MaxIterators |-> FALSE]
  /\ fired = [i \in 1..MaxIterators |-> <<>>]
  /\ timedList = [i \in 1..MaxIterators |-> <<>>]
  /\ resolveResult = [i \in 1..MaxIterators |-> FALSE]
  /\ results = [i \in 1..MaxIterators |-> <<>>]
  /\ nextCalls = 0
  /\ clock = 0
  /\ ctxMessages = <<[role |-> "system", kind |-> "", id |-> 0]>>
  /\ apiTotalTokens = 0
  /\ skipNextTokenCheck = FALSE
  /\ sumPc = "idle"
  /\ sumStep = 0
  /\ newMessages = <<>>
  /\ round = 0
  /\ outcomes = <<>>
  /\ sumRuns = 0
  /\ summaries = 0
  /\ entriesSince = 0
  /\ freshSince = FALSE
  /\ replyPc = "idle"
  /\ replyArgs = <<>>
  /\ replyResult = <<>>
  /\ usersColl = <<>>
  /\ counterSeq = 0
  /\ lastOp = NoOp
  /\ prevOp = NoOp
  /\ relations = <<>>
  /\ uniqueIndex = FALSE
  /\ relPc = [c \in 1..MaxCallers |-> "idle"]
  /\ relArg = [c \in 1..MaxCallers |-> NoRelation]
  /\ relResult = [c \in 1..MaxCallers |-> "none"]
  /\ genPc = "idle"
  /\ genArgs = NoArgs
  /\ signalAborted = FALSE
  /\ genOutcome = "none"
  /\ genCalls = 0
  /\ argPc = "idle"
  /\ toolProps = [declared |-> FALSE, keys |-> <<>>]
  /\ callArgs = <<>>
  /\ positionalArgs = <<>>


\* ------------------------------------------------------------ ActorWorker
\* Mutant of IsBusy: the actor always counts as busy.
IsBusyAlways == TRUE

\* isBusy(): currentStatus !== "idle".
IsBusy == currentStatus # "idle"

\* enqueueBufferWrite: the write is chained behind every earlier one.
EnqueueBufferWrite(chain, m) == Append(chain, m)

\* Mutant of ChainReady: a write starts without waiting for the one before it.
ChainReadyUnchained == TRUE

\* bufferWritePromise.then(...): a chained write starts only when the link
\* before it has settled, i.e. no addBuffer is still running.
ChainReady == writing = {}

\* Mutant of AddBuffer: unshift instead of push.
AddBufferFront(buf, m) == <<m>> \o buf

\* addBuffer: _buffer.push(message).
AddBuffer(buf, m) == Append(buf, m)

\* Mutant of RunSettled: the await of the run never resumes.
RunSettledNever == FALSE

\* Mutant of RunSettled: processQueue goes on without awaiting the run.
RunSettledNoAwait == TRUE

\* "await this.currentRunPromise" in processQueue: resumes once the run settled.
RunSettled == currentRunPromise = "settled"

\* Mutant of SpliceAll: the queue is emptied but only its first batch is kept.
SpliceFirstOnly(q) == IF q = <<>> THEN <<>> ELSE <<Head(q)>>

\* queue.splice(0, queue.length): the batches taken from the queue.
SpliceAll(q) == q

\* Mutant of AgentAbort: abort() flips the flag.
AgentAbortToggle == IF agentStatus # "idle" THEN ~abortRequested ELSE abortRequested

\* Mutant of AgentAbort: abort() does not set the flag.
AgentAbortIgnored == abortRequested

\* Agent.abort(): the value of abortRequested after the call.
AgentAbort == IF agentStatus # "idle" THEN TRUE ELSE abortRequested

\* work(): "this.resumeStateAfterAbort = !this.hasEmaReplyInRun".
ResumeFlag == ~hasEmaReplyInRun

\* Mutant of PickupStatus: the loop goes straight to "running".
PickupStatusRunning == "running"

\* The status processQueue sets at the head of a loop iteration.
PickupStatus == "preparing"

\* The loop test of processQueue followed by setStatus("preparing"), or the
\* exit through the outer finally; retSoFar is the returned list so far.
LoopHead(q, retSoFar) ==
  IF Len(q) > 0
  THEN /\ currentStatus' = PickupStatus
       /\ procPc' = "pickup"
       /\ returned' = retSoFar
       /\ UNCHANGED <<processingQueue, processor>>
  ELSE /\ processingQueue' = FALSE
       /\ procPc' = "none"
       /\ returned' = Append(retSoFar, processor)
       /\ processor' = 0
       /\ UNCHANGED currentStatus

\* work(inputs) for input i after its emitEvent returned: from queue.push to
\* the first await or the first setStatus.
WorkRest(i) ==
  /\ queue' = Append(queue, i)
  /\ writeChain' = EnqueueBufferWrite(writeChain, UserBuffer(i))
  /\ arrivedAt' = [arrivedAt EXCEPT ![i] = IF currentRunPromise = "pending" THEN runId ELSE 0]
  /\ IF IsBusy
     THEN /\ resumeStateAfterAbort' = ResumeFlag
          /\ IF currentRunPromise = "null"
             THEN \* abortCurrentRun returns at once
                  /\ returned' = Append(returned, i)
                  /\ UNCHANGED <<abortRequested, waiters, runs>>
             ELSE \* agent.abort(), then await currentRunPromise
                  /\ abortRequested' = AgentAbort
                  /\ waiters' = Append(waiters, i)
                  /\ runs' = IF agentStatus # "idle" /\ runId >= 1
                             THEN [runs EXCEPT ![runId].preempted = TRUE]
                             ELSE runs
                  /\ UNCHANGED returned
          /\ UNCHANGED <<currentStatus, processingQueue, procPc, processor>>
     ELSE /\ IF processingQueue
             THEN \* processQueue returns at once
                  /\ returned' = Append(returned, i)
                  /\ UNCHANGED <<currentStatus, processingQueue, procPc, processor>>
             ELSE /\ processingQueue' = TRUE
                  /\ processor' = i
                  /\ currentStatus' = PickupStatus
                  /\ procPc' = "pickup"
                  /\ UNCHANGED returned
          /\ UNCHANGED <<resumeStateAfterAbort, abortRequested, waiters, runs>>
  /\ UNCHANGED <<agentState, hasEmaReplyInRun, currentRunPromise, batches,
                 buffer, writing, bufferWritePromise, logged, failedWrites,
                 agentStatus, agentPc, step, pendingCalls,
                 runId, inFlight, resumedNext, handed, handedAt, envVars>>

\* work(inputs) with a valid text input, up to where emitEvent returns: the
\* "message" event is pushed onto the event stream.
WorkEmit ==
  /\ nextInput <= MaxInputs
  /\ nextInput' = nextInput + 1
  /\ eventStream' = Append(eventStream, MessageEvent(nextInput))

\* work(inputs) with a valid text input: everything up to its first await.
Work == WorkEmit /\ WorkRest(nextInput)

\* Mutant of ValidInputs: only the first item is looked at.
ValidInputsFirstOnly(inputs) == Len(inputs) # 0 /\ inputs[1] = "text"

\* The checks at the head of work(): a non-empty list of text items.
ValidInputs(inputs) ==
  /\ Len(inputs) # 0
  /\ \A k \in 1..Len(inputs) : inputs[k] = "text"

\* work(inputs) for any input list: it throws at the head, or goes on as Work.
WorkCall ==
  \E inputs \in InputShapes :
    LET invalid == inputs = <<>> \/ \E k \in 1..Len(inputs) : inputs[k] # "text" IN
    /\ invalid => invalidCalls < MaxInvalid
    /\ invalidCalls' = IF invalid THEN invalidCalls + 1 ELSE invalidCalls
    /\ IF ValidInputs(inputs)
       THEN Work
       ELSE UNCHANGED <<actorVars, chainVars, procVars, agentVars, obsVars, envVars, eventStream>>

\* ------------------------------------------------- bufferWritePromise chain
\* The then-callback of the oldest chained write runs: addBuffer is entered,
\* or, when the previous link rejected, the callback is skipped and the
\* catch handler logs and rethrows.
StartWrite ==
  /\ writeChain # <<>>
  /\ ChainReady
  /\ writeChain' = Tail(writeChain)
  /\ IF bufferWritePromise = "rejected"
     THEN /\ logged' = logged + 1
          /\ UNCHANGED writing
     ELSE /\ writing' = writing \cup {Head(writeChain)}
          /\ UNCHANGED logged
  /\ UNCHANGED <<buffer, bufferWritePromise, failedWrites>>
  /\ UNCHANGED <<actorVars, procVars, agentVars, obsVars, envVars, eventStream>>

\* addBuffer resumes after its await and pushes the message.
FinishWrite ==
  /\ \E m \in writing :
       /\ writing' = writing \ {m}
       /\ buffer' = AddBuffer(buffer, m)
       /\ bufferWritePromise' = "fulfilled"
  /\ UNCHANGED <<writeChain, logged, failedWrites>>
  /\ UNCHANGED <<actorVars, procVars, agentVars, obsVars, envVars, eventStream>>

\* addBuffer rejects (the persistence behind it fails): the catch handler
\* logs the error and rethrows it, so this link of the chain is rejected.
FailWrite ==
  /\ \E m \in writing :
       /\ writing' = writing \ {m}
       /\ failedWrites' = failedWrites \cup {m}
  /\ bufferWritePromise' = "rejected"
  /\ logged' = logged + 1
  /\ UNCHANGED <<buffer, writeChain>>
  /\ UNCHANGED <<actorVars, procVars, agentVars, obsVars, envVars, eventStream>>


\* ------------------------------------------------------------ processQueue
\* Lines 282-284: clear both flags and setStatus("running").
BeginRun(resumes) ==
  /\ resumeStateAfterAbort' = FALSE
  /\ hasEmaReplyInRun' = FALSE
  /\ currentStatus' = "running"
  /\ procPc' = "start"
  /\ resumedNext' = resumes

\* After setStatus("preparing"): splice the queue, then either push the
\* batches onto the cached state or go and build a fresh one (an await).
Pickup ==
  /\ procPc = "pickup"
  /\ queue' = <<>>
  /\ IF resumeStateAfterAbort /\ agentState.present
     THEN /\ agentState' = [agentState EXCEPT !.messages =
                               @ \o [k \in 1..Len(SpliceAll(queue)) |-> UserMessage(SpliceAll(queue)[k])]]
          /\ handed' = handed \o SpliceAll(queue)
          /\ handedAt' = [i \in 1..MaxInputs |->
                            IF i \in Range(SpliceAll(queue)) THEN runId + 1 ELSE handedAt[i]]
          /\ batches' = <<>>
          /\ BeginRun(TRUE)
     ELSE /\ batches' = SpliceAll(queue)
          /\ procPc' = "build"
          /\ UNCHANGED <<agentState, handed, handedAt, resumeStateAfterAbort,
                         hasEmaReplyInRun, currentStatus, resumedNext>>
  /\ UNCHANGED <<currentRunPromise, processingQueue, processor, waiters,
                 chainVars, agentVars, eventStream,
                 nextInput, runId, inFlight, runs, arrivedAt, returned, envVars>>

\* buildSystemPrompt resumes after getBuffer's await: the fresh AgentState.
Build ==
  /\ procPc = "build"
  /\ agentState' = [present |-> TRUE,
                    systemPrompt |-> SliceLast(buffer, BufferWindow),
                    messages |-> [k \in 1..Len(batches) |-> UserMessage(batches[k])]]
  /\ handed' = handed \o batches
  /\ handedAt' = [i \in 1..MaxInputs |->
                    IF i \in Range(batches) THEN runId + 1 ELSE handedAt[i]]
  /\ batches' = <<>>
  /\ BeginRun(FALSE)
  /\ UNCHANGED <<queue, currentRunPromise, processingQueue, processor, waiters,
                 chainVars, agentVars, eventStream,
                 nextInput, runId, inFlight, runs, arrivedAt, returned, envVars>>

\* Mutant of LoopTop: the while loop admits one step more than maxSteps.
LoopTopNoLimit(msgs, st, ab) ==
  IF st <= maxSteps
  THEN IF ab
       THEN [pc |-> "finished", messages |-> msgs, calls |-> <<>>, step |-> st, fin |-> "Aborted"]
       ELSE [pc |-> "llm", messages |-> msgs, calls |-> <<>>, step |-> st, fin |-> ""]
  ELSE [pc |-> "finished", messages |-> msgs, calls |-> <<>>, step |-> st, fin |-> "MaxSteps"]

\* Agent.mainLoop at the head of its while loop, with st steps done and the
\* abort flag ab: the next place the loop rests and the runFinished message
\* it emits on the way ("" for none).
LoopTop(msgs, st, ab) ==
  IF st < maxSteps
  THEN IF ab
       THEN [pc |-> "finished", messages |-> msgs, calls |-> <<>>, step |-> st, fin |-> "Aborted"]
       ELSE [pc |-> "llm", messages |-> msgs, calls |-> <<>>, step |-> st, fin |-> ""]
  ELSE [pc |-> "finished", messages |-> msgs, calls |-> <<>>, step |-> st, fin |-> "MaxSteps"]

\* After setStatus("running"): runWithState(agentState).  Agent.run sets the
\* agent running, clears abortRequested and enters mainLoop, which runs up to
\* its first LLM call.
StartRun ==
  /\ procPc = "start"
  /\ LET r == LoopTop(agentState.messages, 0, FALSE) IN
       /\ agentPc' = r.pc
       /\ step' = r.step
       /\ pendingCalls' = r.calls
       /\ eventStream' = IF r.fin = "" THEN eventStream
                         ELSE Append(eventStream, RunFinishedEvent(runId + 1, r.fin))
  /\ agentStatus' = "running"
  /\ abortRequested' = FALSE
  /\ currentRunPromise' = "pending"
  /\ procPc' = "await"
  /\ runId' = runId + 1
  /\ inFlight' = inFlight + 1
  /\ runs' = Append(runs, [resumed |-> resumedNext, preempted |-> FALSE])
  /\ UNCHANGED <<currentStatus, queue, agentState, hasEmaReplyInRun, processingQueue,
                 resumeStateAfterAbort, batches, processor, waiters, chainVars,
                 nextInput, resumedNext, handed, handedAt, arrivedAt, returned, envVars>>

\* mainLoop has returned: Agent.run's finally, and the run promise settles.
AgentReturn ==
  /\ agentPc = "finished"
  /\ agentPc' = "idle"
  /\ agentStatus' = "idle"
  /\ currentRunPromise' = IF currentRunPromise = "pending" THEN "settled" ELSE currentRunPromise
  /\ inFlight' = inFlight - 1
  /\ UNCHANGED <<currentStatus, queue, agentState, hasEmaReplyInRun, processingQueue,
                 resumeStateAfterAbort, procVars, chainVars, eventStream,
                 abortRequested, step, pendingCalls,
                 nextInput, runId, runs, resumedNext, handed, handedAt, arrivedAt, returned, envVars>>

\* Mutant of Finally: the cached state is kept whatever the resume flag.
FinallyKeepsState ==
  /\ procPc = "await"
  /\ RunSettled
  /\ currentRunPromise' = "null"
  /\ agentState' = agentState
  /\ waiters' = <<>>
  /\ IF Len(queue) = 0 /\ ~resumeStateAfterAbort
     THEN /\ currentStatus' = "idle"
          /\ procPc' = "idleBroadcast"
          /\ returned' = returned \o waiters
          /\ UNCHANGED <<processingQueue, processor>>
     ELSE LoopHead(queue, returned \o waiters)
  /\ UNCHANGED <<queue, hasEmaReplyInRun, resumeStateAfterAbort, batches,
                 chainVars, agentVars, eventStream,
                 nextInput, runId, inFlight, runs, resumedNext, handed, handedAt, arrivedAt, envVars>>

\* The finally block after "await this.currentRunPromise", up to the next
\* broadcast.  The work() calls that awaited the same promise return.
Finally ==
  /\ procPc = "await"
  /\ RunSettled
  /\ currentRunPromise' = "null"
  /\ agentState' = IF ~resumeStateAfterAbort THEN NullState ELSE agentState
  /\ waiters' = <<>>
  /\ IF Len(queue) = 0 /\ ~resumeStateAfterAbort
     THEN /\ currentStatus' = "idle"
          /\ procPc' = "idleBroadcast"
          /\ returned' = returned \o waiters
          /\ UNCHANGED <<processingQueue, processor>>
     ELSE LoopHead(queue, returned \o waiters)
  /\ UNCHANGED <<queue, hasEmaReplyInRun, resumeStateAfterAbort, batches,
                 chainVars, agentVars, eventStream,
                 nextInput, runId, inFlight, runs, resumedNext, handed, handedAt, arrivedAt, envVars>>

\* After setStatus("idle"): the loop test, then pickup or exit.
LoopCheck ==
  /\ procPc = "idleBroadcast"
  /\ LoopHead(queue, returned)
  /\ UNCHANGED <<queue, agentState, hasEmaReplyInRun, currentRunPromise,
                 resumeStateAfterAbort, batches, waiters,
                 chainVars, agentVars, eventStream,
                 nextInput, runId, inFlight, runs, resumedNext, handed, handedAt, arrivedAt, envVars>>


\* ------------------------------------------------------------- Agent.mainLoop
\* Mutant of ContinueTools: a call of an unknown tool ends the run.
ContinueToolsUnknownEnds(msgs, calls, st, ab) ==
  IF calls = <<>> THEN LoopTop(msgs, st + 1, ab)
  ELSE IF ab
  THEN [pc |-> "finished", messages |-> msgs, calls |-> calls, step |-> st, fin |-> "Aborted"]
  ELSE IF Head(calls).name \notin toolDict
  THEN [pc |-> "finished", messages |-> msgs, calls |-> <<>>, step |-> st, fin |-> ""]
  ELSE [pc |-> "tool", messages |-> msgs, calls |-> calls, step |-> st, fin |-> ""]

RECURSIVE ContinueTools(_, _, _, _)
\* The for loop over the tool calls not yet answered, from the abort check of
\* its next iteration to the next await: an unknown tool is answered without
\* an await, a known tool is awaited, and after the last call step is
\* incremented and the while loop is re-entered.
ContinueTools(msgs, calls, st, ab) ==
  IF calls = <<>> THEN LoopTop(msgs, st + 1, ab)
  ELSE IF ab
  THEN [pc |-> "finished", messages |-> msgs, calls |-> calls, step |-> st, fin |-> "Aborted"]
  ELSE IF Head(calls).name \notin toolDict
  THEN ContinueTools(Append(msgs, ToolMessage(Head(calls), UnknownToolResult)), Tail(calls), st, ab)
  ELSE [pc |-> "tool", messages |-> msgs, calls |-> calls, step |-> st, fin |-> ""]

\* Mutant of AfterGenerate: no abort check after the response arrived.
AfterGenerateNoAbortCheck(outcome, calls) ==
  LET msgs == agentState.messages
      stop(m) == [pc |-> "finished", messages |-> msgs, calls |-> <<>>, step |-> step, fin |-> m]
  IN CASE outcome = "AbortError" -> stop("Aborted")
       [] outcome = "RetryExhausted" -> stop("RetryExhausted")
       [] outcome = "Error" -> stop("")
       [] OTHER ->
            IF calls = <<>>
            THEN [pc |-> "finished", messages |-> Append(msgs, ModelMessage(calls)),
                  calls |-> <<>>, step |-> step, fin |-> "stop"]
            ELSE ContinueTools(Append(msgs, ModelMessage(calls)), calls, step, abortRequested)

\* What mainLoop does when llm.generate settles with the given outcome:
\* "response" with tool calls `calls`, or one of the three kinds of error.
AfterGenerate(outcome, calls) ==
  LET msgs == agentState.messages
      stop(m) == [pc |-> "finished", messages |-> msgs, calls |-> <<>>, step |-> step, fin |-> m]
  IN CASE outcome = "AbortError" -> stop("Aborted")
       [] outcome = "RetryExhausted" -> stop("RetryExhausted")
       [] outcome = "Error" -> stop("")
       [] OTHER ->
            IF abortRequested THEN stop("Aborted")
            ELSE IF calls = <<>>
            THEN [pc |-> "finished", messages |-> Append(msgs, ModelMessage(calls)),
                  calls |-> <<>>, step |-> step, fin |-> "stop"]
            ELSE ContinueTools(Append(msgs, ModelMessage(calls)), calls, step, abortRequested)

\* The resting place r of mainLoop becomes the state; a runFinished it
\* emitted on the way reaches the actor's emitEvent.
Resume(r) ==
  /\ agentPc' = r.pc
  /\ agentState' = [agentState EXCEPT !.messages = r.messages]
  /\ pendingCalls' = r.calls
  /\ step' = r.step
  /\ eventStream' = IF r.fin = "" THEN eventStream
                    ELSE Append(eventStream, RunFinishedEvent(runId, r.fin))

\* llm.generate settles, with a response whose tool calls are drawn from
\* `answers` or with an error drawn from `errors`.  The cancel error is possible only once
\* abort() has fired the signal.
LLMReturn(answers, errors) ==
  /\ agentPc = "llm"
  /\ \/ \E calls \in answers :
          /\ calls # <<>> => toolTurns < MaxToolTurns
          /\ toolTurns' = IF calls # <<>> THEN toolTurns + 1 ELSE toolTurns
          /\ Resume(AfterGenerate("response", calls))
     \/ /\ \E e \in errors : Resume(AfterGenerate(e, <<>>))
        /\ UNCHANGED toolTurns
     \/ /\ abortRequested
        /\ Resume(AfterGenerate("AbortError", <<>>))
        /\ UNCHANGED toolTurns
  /\ UNCHANGED <<currentStatus, queue, hasEmaReplyInRun, currentRunPromise,
                 processingQueue, resumeStateAfterAbort, procVars, chainVars,
                 agentStatus, abortRequested, obsVars, toolFailures>>

\* Number of emaReplyReceived events so far.
ReplyCount == Cardinality({k \in 1..Len(eventStream) : eventStream[k].type = "emaReplyReceived"})

\* tool.execute settles for the oldest unanswered call.  A successful
\* ema_reply is emitted as emaReplyReceived (emitEvent sets hasEmaReplyInRun
\* and chains the buffer write); the loop is then inside that broadcast.
ToolReturn ==
  /\ agentPc = "tool"
  /\ pendingCalls # <<>>
  /\ \E ok \in BOOLEAN :
       /\ ~ok => toolFailures < MaxToolFailures
       /\ toolFailures' = IF ok THEN toolFailures ELSE toolFailures + 1
       /\ IF ok /\ Head(pendingCalls).name = "ema_reply"
          THEN /\ hasEmaReplyInRun' = TRUE
               /\ writeChain' = EnqueueBufferWrite(writeChain, EmaBuffer(ReplyCount + 1))
               /\ eventStream' = Append(eventStream, EmaReplyEvent(runId, ReplyCount + 1))
               /\ agentPc' = "emitReply"
               /\ UNCHANGED <<agentState, pendingCalls, step>>
          ELSE /\ Resume(ContinueTools(
                    Append(agentState.messages,
                           ToolMessage(Head(pendingCalls), IF ok THEN OkToolResult ELSE FailedToolResult)),
                    Tail(pendingCalls), step, abortRequested))
               /\ UNCHANGED <<hasEmaReplyInRun, writeChain>>
  /\ UNCHANGED <<currentStatus, queue, currentRunPromise, processingQueue,
                 resumeStateAfterAbort, procVars,
                 buffer, writing, bufferWritePromise, logged, failedWrites,
                 agentStatus, abortRequested, obsVars, toolTurns>>

\* Back from the emaReplyReceived broadcast: result.content = undefined,
\* addToolMessage, and on to the next tool call.
AfterReply ==
  /\ agentPc = "emitReply"
  /\ Resume(ContinueTools(
       Append(agentState.messages, ToolMessage(Head(pendingCalls), StrippedToolResult)),
       Tail(pendingCalls), step, abortRequested))
  /\ UNCHANGED <<currentStatus, queue, hasEmaReplyInRun, currentRunPromise,
                 processingQueue, resumeStateAfterAbort, procVars, chainVars,
                 agentStatus, abortRequested, obsVars, envVars>>

\* ------------------------------------------------------------ EventHistory
\* advance(): eventIdx after "eventIdx += events.length", where events is
\* this.events.slice(eventIdx) of the event list as the step leaves it.
AdvanceIdx == eventIdx + (Len(eventStream') - eventIdx)

\* advance(): the slice it returns.
Advance == SubSeq(eventStream', eventIdx + 1, Len(eventStream'))

\* Mutant of PastEvents: the events from eventIdx on instead of those before it.
PastEventsFromIdx == SubSeq(eventStream, eventIdx + 1, Len(eventStream))

\* pastEvents(): this.events.slice(0, eventIdx).
PastEvents == SubSeq(eventStream, 1, eventIdx)

\* broadcast() with an empty subscriber set: only advance() has an effect.
NoSubscriber ==
  /\ eventIdx' = AdvanceIdx
  /\ UNCHANGED <<subscribers, received, lastStatus, stack, thrown>>

\* A step of the actor or the agent with no subscriber registered.
Quiet == NoSubscriber /\ UNCHANGED <<invalidCalls, runVars, libVars>>

\* -------------------------------------------------- subscribers and broadcast
\* The frames of `stack`.  "bcast": a broadcast() whose for loop is about to
\* call the subscriber at position pos with {status, events}; `next` names the
\* code that runs when broadcast() returns and arg its input.  "cb": the
\* callback of subscriber arg is running.  "cont": the code named `next` is
\* about to run.
BcastFrame(st, evs, nxt, a) ==
  [kind |-> "bcast", status |-> st, events |-> evs, pos |-> 1, next |-> nxt, arg |-> a]
CbFrame(sub) ==
  [kind |-> "cb", status |-> "", events |-> <<>>, pos |-> 0, next |-> "", arg |-> sub]
ContFrame(nxt, a) ==
  [kind |-> "cont", status |-> "", events |-> <<>>, pos |-> 0, next |-> nxt, arg |-> a]

Top == stack[Len(stack)]
Pop(st) == SubSeq(st, 1, Len(st) - 1)
AtTopLevel == stack = <<>>
InCallback == stack # <<>> /\ Top.kind = "cb"
About(nxt) == stack # <<>> /\ Top.kind = "cont" /\ Top.next = nxt

\* The for loop of broadcast() between two callbacks: when the subscribers
\* (as many as there are now) have all been called, broadcast() returns to
\* the code that called it.
LoopOn(st, subs) ==
  IF st # <<>> /\ st[Len(st)].kind = "bcast" /\ st[Len(st)].pos > Len(subs)
  THEN Append(Pop(st), ContFrame(st[Len(st)].next, st[Len(st)].arg))
  ELSE st

\* broadcast() called under the frames `base` by code that continues with
\* `nxt`: the response is built from the status and the events as the step
\* leaves them, and the for loop starts.
Broadcast(base, nxt, a) ==
  /\ eventIdx' = AdvanceIdx
  /\ stack' = LoopOn(Append(base, BcastFrame(currentStatus', Advance, nxt, a)), subscribers)

\* What the synchronous code of an actor or agent step does last, and so
\* how the step leaves the frames `base` under it: a setStatus or an emitted
\* event is a broadcast followed by more synchronous code; a mainLoop that
\* returned without an event goes on in Agent.run; anything else is an
\* await or a return.
StepEnds(base) ==
  IF procPc' # procPc /\ procPc' = "pickup" THEN Broadcast(base, "pickup", 0)
  ELSE IF procPc' # procPc /\ procPc' = "start" THEN Broadcast(base, "start", 0)
  ELSE IF procPc' # procPc /\ procPc' = "idleBroadcast" THEN Broadcast(base, "loopCheck", 0)
  ELSE IF agentPc' # agentPc /\ agentPc' = "emitReply" THEN Broadcast(base, "afterReply", 0)
  ELSE IF eventStream' # eventStream THEN Broadcast(base, "agentReturn", 0)
  ELSE IF agentPc' # agentPc /\ agentPc' = "finished"
  THEN stack' = Append(base, ContFrame("agentReturn", 0)) /\ UNCHANGED eventIdx
  ELSE stack' = base /\ UNCHANGED eventIdx

\* cb({status, events}) for subscriber sub, as the subscriber observes it.
Call(sub, st, evs) ==
  /\ received' = [received EXCEPT ![sub] = @ \o evs]
  /\ lastStatus' = [lastStatus EXCEPT ![sub] = st]

\* subscribe(cb), from the top level or from inside a callback: cb is called
\* with the current status and the past events; it is added to the set when
\* it has returned.  Each callback subscribes once; the callbacks being
\* interchangeable, they subscribe in the order of their numbers.
SubscribeCall ==
  /\ AtTopLevel \/ InCallback
  /\ \E sub \in Subs :
       /\ lastStatus[sub] = ""
       /\ \A t \in Subs : t < sub => lastStatus[t] # ""
       /\ Call(sub, currentStatus, PastEvents)
       /\ stack' = stack \o <<ContFrame("subscribeAdd", sub), CbFrame(sub)>>
  /\ UNCHANGED <<actorVars, chainVars, procVars, agentVars, obsVars, envVars,
                 eventStream, eventIdx, subscribers, thrown, invalidCalls, runVars, libVars>>

\* subscribe(cb) after cb returned: this.subscribers.add(cb).
SubscribeAdd ==
  /\ About("subscribeAdd")
  /\ subscribers' = Append(subscribers, Top.arg)
  /\ stack' = Pop(stack)
  /\ UNCHANGED <<actorVars, chainVars, procVars, agentVars, obsVars, envVars,
                 eventStream, eventIdx, received, lastStatus, thrown, invalidCalls, runVars, libVars>>

\* broadcast(): the for loop calls the next subscriber with a copy of the response.
Deliver ==
  /\ stack # <<>>
  /\ Top.kind = "bcast"
  /\ LET sub == subscribers[Top.pos] IN
       /\ Call(sub, Top.status, Top.events)
       /\ stack' = Append(Append(Pop(stack), [Top EXCEPT !.pos = @ + 1]), CbFrame(sub))
  /\ UNCHANGED <<actorVars, chainVars, procVars, agentVars, obsVars, envVars,
                 eventStream, eventIdx, subscribers, thrown, invalidCalls, runVars, libVars>>

\* A callback returns to the loop or to the subscribe() that called it.
CbReturn ==
  /\ InCallback
  /\ stack' = LoopOn(Pop(stack), subscribers)
  /\ UNCHANGED <<actorVars, chainVars, procVars, agentVars, obsVars, envVars,
                 eventStream, eventIdx, subscribers, received, lastStatus, thrown, invalidCalls, runVars, libVars>>

\* A callback throws while handling the broadcast of a "message" event: the
\* error leaves the for loop, broadcast() and emitEvent(), and work(), an
\* async function, returns a rejected promise without running its remainder.
CbThrow ==
  /\ InCallback
  /\ thrown < MaxThrows
  /\ Len(stack) >= 2
  /\ stack[Len(stack) - 1].kind = "bcast"
  /\ stack[Len(stack) - 1].next = "workRest"
  /\ thrown' = thrown + 1
  /\ stack' = Pop(Pop(stack))
  /\ UNCHANGED <<actorVars, chainVars, procVars, agentVars, obsVars, envVars,
                 eventStream, eventIdx, subscribers, received, lastStatus, invalidCalls, runVars, libVars>>

\* work() with a valid input, from the top level or from inside a callback,
\* as far as into the broadcast of its "message" event.
SubWorkEmit ==
  /\ AtTopLevel \/ InCallback
  /\ WorkEmit
  /\ UNCHANGED <<actorVars, chainVars, procVars, agentVars, envVars,
                 runId, inFlight, runs, resumedNext, handed, handedAt, arrivedAt, returned,
                 subscribers, received, lastStatus, thrown, invalidCalls, runVars, libVars>>
  /\ Broadcast(stack, "workRest", nextInput)

\* work() after that broadcast returned.
SubWorkRest ==
  /\ About("workRest")
  /\ WorkRest(Top.arg)
  /\ UNCHANGED <<nextInput, eventStream, subscribers, received, lastStatus, thrown, invalidCalls, runVars, libVars>>
  /\ StepEnds(Pop(stack))

\* A step of the actor or the agent that follows a broadcast synchronously.
SubAfter(nxt, A) ==
  /\ About(nxt)
  /\ A
  /\ StepEnds(Pop(stack))
  /\ UNCHANGED <<subscribers, received, lastStatus, thrown, invalidCalls, runVars, libVars>>

\* A step of the actor or the agent that resumes from an await.
SubResumed(A) ==
  /\ AtTopLevel
  /\ A
  /\ StepEnds(stack)
  /\ UNCHANGED <<subscribers, received, lastStatus, thrown, invalidCalls, runVars, libVars>>

\* The LLM answers of SpecSub: a final answer without tool calls.
SubResponses == {ToolCallsOf(<<>>)}

\* Actor and agent with subscribers: the callbacks run inside the broadcasts
\* and may call work() and subscribe(); none of them throws.
NextSub ==
  \/ SubscribeCall
  \/ SubscribeAdd
  \/ Deliver
  \/ CbReturn
  \/ SubWorkEmit
  \/ SubWorkRest
  \/ SubAfter("pickup", Pickup)
  \/ SubResumed(Build)
  \/ SubAfter("start", StartRun)
  \/ SubAfter("agentReturn", AgentReturn)
  \/ SubResumed(Finally)
  \/ SubAfter("loopCheck", LoopCheck)
  \/ SubResumed(LLMReturn(SubResponses, {"Error"}))

SpecSub == Init /\ [][NextSub]_vars

\* The same with callbacks that may throw.
NextThrow == NextSub \/ CbThrow

SpecThrow == Init /\ [][NextThrow]_vars

\* The actions of the ActorWorker and of the Agent it drives, nobody subscribed.
RunNext(answers, errors) ==
  \/ Work /\ Quiet
  \/ Pickup /\ Quiet
  \/ Build /\ Quiet
  \/ StartRun /\ Quiet
  \/ AgentReturn /\ Quiet
  \/ Finally /\ Quiet
  \/ LoopCheck /\ Quiet
  \/ LLMReturn(answers, errors) /\ Quiet
  \/ ToolReturn /\ Quiet
  \/ AfterReply /\ Quiet

\* The LLM answers of SpecInvalid: a final answer, or one structured reply.
ShortResponses == {ToolCallsOf(<<>>), ToolCallsOf(<<"ema_reply">>)}

\* Actor and agent, with work() called with any input list.
NextInvalid == RunNext(ShortResponses, {"Error"}) \/ (WorkCall /\ NoSubscriber /\ UNCHANGED <<runVars, libVars>>)

SpecInvalid == Init /\ [][NextInvalid]_vars

\* Actor and agent with short LLM answers, nobody subscribed.
NextLive == RunNext(ShortResponses, {"Error"})

\* The scheduling of the program: a continuation that is ready to resume
\* (a settled await, the code after a broadcast) does resume, and every LLM
\* call and every tool call settles.  work() is called by the environment
\* whenever it likes, or never.
Fairness ==
  /\ WF_vars(Pickup /\ Quiet)
  /\ WF_vars(Build /\ Quiet)
  /\ WF_vars(StartRun /\ Quiet)
  /\ WF_vars(AgentReturn /\ Quiet)
  /\ WF_vars(Finally /\ Quiet)
  /\ WF_vars(LoopCheck /\ Quiet)
  /\ WF_vars(LLMReturn(ShortResponses, {"Error"}) /\ Quiet)
  /\ WF_vars(ToolReturn /\ Quiet)
  /\ WF_vars(AfterReply /\ Quiet)

SpecLive == Init /\ [][NextLive]_vars /\ Fairness

\* ------------------------------------------------ exceptions in processQueue
\* buildSystemPrompt rejects: the exception leaves the while loop through the
\* outer finally, processQueue and the work() that called it reject.  The
\* status stays as setStatus("preparing") left it and the spliced batches
\* are gone.
BuildRejects ==
  /\ procPc = "build"
  /\ processingQueue' = FALSE
  /\ procPc' = "none"
  /\ batches' = <<>>
  /\ returned' = Append(returned, processor)
  /\ processor' = 0
  /\ UNCHANGED <<currentStatus, queue, agentState, hasEmaReplyInRun, currentRunPromise,
                 resumeStateAfterAbort, waiters, chainVars, agentVars, eventStream,
                 nextInput, runId, inFlight, runs, resumedNext, handed, handedAt, arrivedAt,
                 envVars>>

\* mainLoop throws at one of its awaits or inside an emit: Agent.run's
\* finally runs and the promise of runWithState rejects.
RunRejects ==
  /\ agentPc \in {"llm", "tool", "emitReply"}
  /\ currentRunPromise = "pending"
  /\ agentPc' = "idle"
  /\ agentStatus' = "idle"
  /\ currentRunPromise' = "rejected"
  /\ inFlight' = inFlight - 1
  /\ UNCHANGED <<currentStatus, queue, agentState, hasEmaReplyInRun, processingQueue,
                 resumeStateAfterAbort, procVars, chainVars, eventStream,
                 abortRequested, step, pendingCalls,
                 nextInput, runId, runs, resumedNext, handed, handedAt, arrivedAt, returned,
                 envVars>>

\* "await this.currentRunPromise" throws: the inner finally runs as after
\* any run, then the exception leaves the while loop through the outer
\* finally.  processQueue and every work() awaiting the promise reject.
FinallyRejected ==
  /\ procPc = "await"
  /\ currentRunPromise = "rejected"
  /\ currentRunPromise' = "null"
  /\ agentState' = IF ~resumeStateAfterAbort THEN NullState ELSE agentState
  /\ currentStatus' = IF Len(queue) = 0 /\ ~resumeStateAfterAbort THEN "idle" ELSE currentStatus
  /\ processingQueue' = FALSE
  /\ procPc' = "none"
  /\ returned' = Append(returned \o waiters, processor)
  /\ waiters' = <<>>
  /\ processor' = 0
  /\ UNCHANGED <<queue, hasEmaReplyInRun, resumeStateAfterAbort, batches,
                 chainVars, agentVars, eventStream,
                 nextInput, runId, inFlight, runs, resumedNext, handed, handedAt, arrivedAt,
                 envVars>>

\* Actor and agent where the prompt build and the run may reject.
NextFail ==
  \/ NextLive
  \/ BuildRejects /\ Quiet
  \/ RunRejects /\ Quiet
  \/ FinallyRejected /\ Quiet

SpecFail == Init /\ [][NextFail]_vars /\ Fairness /\ WF_vars(FinallyRejected /\ Quiet)

\* ------------------------------------------------- Agent.run(callback), direct
\* The AgentState a callback passes to loop(): one user message, numbered i.
LoopState(i) == [present |-> TRUE, systemPrompt |-> <<>>, messages |-> <<UserMessage(i)>>]

\* Mutant of RunCall: run() leaves abortRequested as the last run left it.
RunCallKeepsAbort ==
  /\ runPc = "none"
  /\ runId < MaxRuns
  /\ agentStatus' = "running"
  /\ abortRequested' = abortRequested
  /\ called' = FALSE
  /\ runPc' = "callback"
  /\ runId' = runId + 1
  /\ inFlight' = inFlight + 1
  /\ runs' = Append(runs, [resumed |-> FALSE, preempted |-> FALSE])
  /\ loopCalls' = 0
  /\ loopErrors' = 0
  /\ passed' = 0
  /\ aborts' = 0
  /\ UNCHANGED <<actorVars, chainVars, procVars, agentPc, step, pendingCalls, envVars,
                 eventStream, nextInput, resumedNext, handed, handedAt, arrivedAt, returned>>

\* Agent.run(callback) up to the call of the callback.
RunCall ==
  /\ runPc = "none"
  /\ runId < MaxRuns
  /\ agentStatus' = "running"
  /\ abortRequested' = FALSE
  /\ called' = FALSE
  /\ runPc' = "callback"
  /\ runId' = runId + 1
  /\ inFlight' = inFlight + 1
  /\ runs' = Append(runs, [resumed |-> FALSE, preempted |-> FALSE])
  /\ loopCalls' = 0
  /\ loopErrors' = 0
  /\ passed' = 0
  /\ aborts' = 0
  /\ UNCHANGED <<actorVars, chainVars, procVars, agentPc, step, pendingCalls, envVars,
                 eventStream, nextInput, resumedNext, handed, handedAt, arrivedAt, returned>>

\* Mutant of LoopThrows: the continuation never refuses a call.
LoopThrowsNever == FALSE

\* loop(): "if (called) throw new Error(...)".
LoopThrows == called

\* The callback calls loop(state), while it runs or while an earlier loop()
\* it did not await is at an await.  A refused call throws; an accepted one
\* sets the flag, installs the state and runs mainLoop to its first await.
LoopCall ==
  /\ runPc \in {"callback", "loop"}
  /\ runPc = "loop" => agentPc \in {"llm", "tool"}
  /\ loopCalls < MaxLoopCalls
  /\ loopCalls' = loopCalls + 1
  /\ \E i \in 1..MaxLoopCalls :
       /\ passed' = i
       /\ IF LoopThrows
          THEN /\ loopErrors' = loopErrors + 1
               /\ UNCHANGED <<called, runPc, agentState, agentPc, step, pendingCalls, eventStream>>
          ELSE LET r == LoopTop(LoopState(i).messages, 0, abortRequested) IN
               /\ called' = TRUE
               /\ runPc' = "loop"
               /\ agentState' = LoopState(i)
               /\ agentPc' = r.pc
               /\ step' = r.step
               /\ pendingCalls' = r.calls
               /\ eventStream' = IF r.fin = "" THEN eventStream
                                 ELSE Append(eventStream, RunFinishedEvent(runId, r.fin))
               /\ UNCHANGED loopErrors
  /\ UNCHANGED <<currentStatus, queue, hasEmaReplyInRun, currentRunPromise, processingQueue,
                 resumeStateAfterAbort, chainVars, procVars, agentStatus, abortRequested,
                 obsVars, envVars, aborts>>

\* mainLoop has returned: the loop() promise settles and the callback goes on.
LoopReturn ==
  /\ runPc = "loop"
  /\ agentPc = "finished"
  /\ agentPc' = "idle"
  /\ runPc' = "callback"
  /\ UNCHANGED <<actorVars, chainVars, procVars, agentStatus, abortRequested, step,
                 pendingCalls, obsVars, envVars, eventStream,
                 called, loopCalls, loopErrors, passed, aborts>>

\* The callback returns or throws: the finally block of Agent.run.
CallbackReturn ==
  /\ runPc = "callback"
  /\ agentStatus' = "idle"
  /\ runPc' = "none"
  /\ inFlight' = inFlight - 1
  /\ UNCHANGED <<actorVars, chainVars, procVars, abortRequested, agentPc, step,
                 pendingCalls, envVars, eventStream,
                 nextInput, runId, runs, resumedNext, handed, handedAt, arrivedAt, returned,
                 called, loopCalls, loopErrors, passed, aborts>>

\* abort() called directly.
Abort ==
  /\ aborts < MaxAborts
  /\ aborts' = aborts + 1
  /\ abortRequested' = AgentAbort
  /\ UNCHANGED <<actorVars, chainVars, procVars, agentStatus, agentPc, step,
                 pendingCalls, obsVars, envVars, eventStream,
                 runPc, called, loopCalls, loopErrors, passed>>

\* A step of mainLoop under a direct run(): no actor step, no subscriber.
AgentStep(A) == A /\ NoSubscriber /\ UNCHANGED <<invalidCalls, runVars, libVars>>

\* The Agent alone, run() and abort() called directly.
NextAgent ==
  \/ RunCall /\ UNCHANGED <<subVars, invalidCalls, libVars>>
  \/ LoopCall /\ NoSubscriber /\ UNCHANGED <<invalidCalls, libVars>>
  \/ LoopReturn /\ UNCHANGED <<subVars, invalidCalls, libVars>>
  \/ CallbackReturn /\ UNCHANGED <<subVars, invalidCalls, libVars>>
  \/ Abort /\ UNCHANGED <<subVars, invalidCalls, libVars>>
  \/ AgentStep(LLMReturn(Responses, LLMErrors))
  \/ AgentStep(ToolReturn)
  \/ AgentStep(AfterReply)

SpecAgent == Init /\ [][NextAgent]_vars

\* The callbacks of the bufferWritePromise chain.
ChainNext ==
  \/ StartWrite /\ UNCHANGED <<subVars, invalidCalls, runVars, libVars>>
  \/ FinishWrite /\ UNCHANGED <<subVars, invalidCalls, runVars, libVars>>
  \/ FailWrite /\ UNCHANGED <<subVars, invalidCalls, runVars, libVars>>

\* Actor and agent with every LLM answer and error.  The
\* chained buffer writes stay pending: they write only the chain variables,
\* and of those the other actions read only `buffer`, into the system prompt.
Next == RunNext(Responses, LLMErrors)

Spec == Init /\ [][Next]_vars

\* The LLM answers of SpecChain: no tool call, or one structured reply; its
\* LLM errors: the plain Error.
ChainResponses == {ToolCallsOf(<<>>), ToolCallsOf(<<"ema_reply">>)}

\* Actor, agent and the buffer-write chain, the chain callbacks running at
\* any time between the other actions.
NextChain == RunNext(ChainResponses, {"Error"}) \/ ChainNext

SpecChain == Init /\ [][NextChain]_vars


\* ------------------------------------------------ ActorWorker.buildSystemPrompt
\* The pieces of a prompt string: literal text, the "{MEMORY_BUFFER}"
\* placeholder, the text "None.", and the line bufferMessageToPrompt makes of
\* a BufferMessage.
NoMessage == [kind |-> "", id |-> 0]
TextPiece == [kind |-> "text", of |-> NoMessage]
Placeholder == [kind |-> "{MEMORY_BUFFER}", of |-> NoMessage]
NonePiece == [kind |-> "None.", of |-> NoMessage]
LinePiece(m) == [kind |-> "line", of |-> m]

\* The system prompt templates: every string of up to MaxTemplate pieces.
Templates == UNION {[1..n -> {TextPiece, Placeholder}] : n \in 0..MaxTemplate}

\* bufferText: "None." for an empty window, else the lines joined by "\n".
BufferText(window) ==
  IF Len(window) = 0 THEN <<NonePiece>>
  ELSE [k \in 1..Len(window) |-> LinePiece(window[k])]

\* The positions of the placeholder in a prompt.
PlaceholdersIn(str) == {k \in 1..Len(str) : str[k] = Placeholder}

\* Smallest element of a non-empty set of numbers.
Min(S) == CHOOSE x \in S : \A y \in S : x <= y

RECURSIVE ReplaceAll(_, _)
\* The string str with every occurrence of the placeholder replaced by text.
ReplaceAll(str, text) ==
  IF str = <<>> THEN <<>>
  ELSE (IF Head(str) = Placeholder THEN text ELSE <<Head(str)>>) \o ReplaceAll(Tail(str), text)

\* String.prototype.replace with a string pattern: the first occurrence of
\* the pattern is replaced, the rest of the string is copied.
Replace(str, text) ==
  IF PlaceholdersIn(str) = {} THEN str
  ELSE LET i == Min(PlaceholdersIn(str))
       IN SubSeq(str, 1, i - 1) \o text \o SubSeq(str, i + 1, Len(str))

\* What a step of buildSystemPrompt leaves alone.
PromptOnly(others) ==
  UNCHANGED <<actorVars, writeChain, writing, bufferWritePromise, logged, failedWrites,
              procVars, agentVars, obsVars, envVars, eventStream, subVars,
              invalidCalls, runVars, timedVars, sumVars, replyVars, userDbVars,
              relVars,
              genVars,
              argVars, others>>

\* addBuffer completes: one more BufferMessage in _buffer.
BufferGrows ==
  /\ Len(buffer) < MaxBuffered
  /\ buffer' = Append(buffer, UserBuffer(Len(buffer) + 1))
  /\ PromptOnly(promptVars)

\* buildSystemPrompt(systemPrompt) is called and awaits getBuffer(10).
BuildSystemPromptCall ==
  /\ promptPc = "idle"
  /\ \E systemPrompt \in Templates : template' = systemPrompt
  /\ promptPc' = "getBuffer"
  /\ PromptOnly(<<buffer, bufferWindow, builtPrompt>>)

\* getBuffer resumes after its await: this._buffer.slice(-count).
GetBuffer ==
  /\ promptPc = "getBuffer"
  /\ bufferWindow' = SliceLast(buffer, BufferWindow)
  /\ promptPc' = "replace"
  /\ PromptOnly(<<buffer, template, builtPrompt>>)

\* buildSystemPrompt resumes: bufferText and the replace.
BuildSystemPromptReturn ==
  /\ promptPc = "replace"
  /\ builtPrompt' = Replace(template, BufferText(bufferWindow))
  /\ promptPc' = "done"
  /\ PromptOnly(<<buffer, template, bufferWindow>>)

\* The caller has taken the prompt.
PromptTaken ==
  /\ promptPc = "done"
  /\ promptPc' = "idle"
  /\ template' = <<>>
  /\ bufferWindow' = <<>>
  /\ builtPrompt' = <<>>
  /\ PromptOnly(buffer)

\* buildSystemPrompt called with any template, the buffer growing meanwhile.
NextPrompt ==
  \/ BufferGrows
  \/ BuildSystemPromptCall
  \/ GetBuffer
  \/ BuildSystemPromptReturn
  \/ PromptTaken

SpecPrompt == Init /\ [][NextPrompt]_vars


\* ------------------------------------------- TimedTaskScheduler.iterateTimed
\* IteratorResult values: {value: date, done: false}, tagged with the way
\* the date reached the consumer, and {value: undefined, done: true}.
Yielded(date, how) == [done |-> FALSE, value |-> date, via |-> how]
Done == [done |-> TRUE, value |-> 0, via |-> ""]

\* Mutant of Enqueue: the node is linked in front of head.
EnqueueAtHead(list, date) == <<date>> \o list

\* The else branch of the timed callback: the node is linked after tail.
Enqueue(list, date) == Append(list, date)

\* Mutant of IsCancelled: next() does not look at the tab.
IsCancelledNever(i) == FALSE

\* next(): "if (tab.cancelled)".
IsCancelled(i) == cancelled[i]

\* TimedTab.cancel(): the tab is cancelled; calling it again changes nothing.
TabCancel(tabs, i) == [tabs EXCEPT ![i] = TRUE]

\* A schedule calls its callback only while its tab is not cancelled.
ScheduleRuns(i) == ~cancelled[i]

\* What a step of the timed iterators leaves alone.
TimedOnly(others) ==
  UNCHANGED <<progVars, promptVars, sumVars, replyVars, userDbVars, relVars,
              genVars,
              argVars, others>>

\* iterable[Symbol.asyncIterator](): fresh resolveResult, head and tail, and
\* one startTimed call whose tab is not cancelled.
AsyncIterator ==
  /\ started < MaxIterators
  /\ started' = started + 1
  /\ TimedOnly(<<cancelled, fired, timedList, resolveResult, results, nextCalls, clock>>)

\* The scheduler calls the callback of schedule i with the next date: the
\* waiting next() is resolved, or the date is queued.  A cancelled schedule
\* does not fire.
TimedCallback(i) ==
  /\ i <= started
  /\ ScheduleRuns(i)
  /\ clock < MaxFires
  /\ clock' = clock + 1
  /\ fired' = [fired EXCEPT ![i] = Append(@, clock + 1)]
  /\ IF resolveResult[i]
     THEN /\ results' = [results EXCEPT ![i] = Append(@, Yielded(clock + 1, "resolve"))]
          /\ resolveResult' = [resolveResult EXCEPT ![i] = FALSE]
          /\ UNCHANGED timedList
     ELSE /\ timedList' = [timedList EXCEPT ![i] = Enqueue(@, clock + 1)]
          /\ UNCHANGED <<results, resolveResult>>
  /\ TimedOnly(<<started, cancelled, nextCalls>>)

\* iterator.next() on iterator i: done once cancelled, else the head of the
\* list, else a promise whose resolver is stored in resolveResult (replacing
\* the resolver of a next() that is still waiting).
IteratorNext(i) ==
  /\ i <= started
  /\ nextCalls < MaxNextCalls
  /\ nextCalls' = nextCalls + 1
  /\ IF IsCancelled(i)
     THEN /\ results' = [results EXCEPT ![i] = Append(@, Done)]
          /\ UNCHANGED <<timedList, resolveResult>>
     ELSE IF timedList[i] # <<>>
     THEN /\ results' = [results EXCEPT ![i] = Append(@, Yielded(Head(timedList[i]), "list"))]
          /\ timedList' = [timedList EXCEPT ![i] = Tail(@)]
          /\ UNCHANGED resolveResult
     ELSE /\ resolveResult' = [resolveResult EXCEPT ![i] = TRUE]
          /\ UNCHANGED <<results, timedList>>
  /\ TimedOnly(<<started, cancelled, fired, clock>>)

\* iterator.return() on iterator i: tab.cancel().
IteratorReturn(i) ==
  /\ i <= started
  /\ cancelled' = TabCancel(cancelled, i)
  /\ TimedOnly(<<started, fired, timedList, resolveResult, results, nextCalls, clock>>)

\* One timed iterable, its iterators and the scheduler.
NextTimed ==
  \/ AsyncIterator
  \/ \E i \in 1..MaxIterators : TimedCallback(i)
  \/ \E i \in 1..MaxIterators : IteratorNext(i)
  \/ \E i \in 1..MaxIterators : IteratorReturn(i)

SpecTimed == Init /\ [][NextTimed]_vars


\* ------------------------------------- ContextManager.summarizeMessages
\* Message records of the summarising context manager.  A summary message
\* has role "user"; kind tells the LLM's summary text from the raw textual
\* join of the round, id is the round number.
SystemMsg == [role |-> "system", kind |-> "", id |-> 0]
UserMsg(n) == [role |-> "user", kind |-> "", id |-> n]
AssistantMsg == [role |-> "assistant", kind |-> "", id |-> 0]
ToolMsg == [role |-> "tool", kind |-> "", id |-> 0]
SummaryMsg(text, n) == [role |-> "user", kind |-> text, id |-> n]

\* estimateTokens(): every message counts one unit.
EstimateTokens(msgs) == Len(msgs)

\* Mutant of UserIndices: the first message after the system prompt is skipped too.
UserIndicesFromThird(msgs) == {k \in 3..Len(msgs) : msgs[k].role = "user"}

\* userIndices: the indices of the user messages, the system prompt skipped.
UserIndices(msgs) == {k \in 2..Len(msgs) : msgs[k].role = "user"}

RECURSIVE SortedSeq(_)
\* The elements of a set of numbers in increasing order.
SortedSeq(S) == IF S = {} THEN <<>> ELSE <<Min(S)>> \o SortedSeq(S \ {Min(S)})

\* executionMessages of round i: from after user i to before the next user
\* message, or to the end of the list.
ExecutionMessages(msgs, users, i) ==
  SubSeq(msgs, users[i] + 1, (IF i < Len(users) THEN users[i + 1] ELSE Len(msgs) + 1) - 1)

\* createSummary's result for an outcome of its LLM call: the response
\* content (possibly the empty string), or summaryContent when the call throws.
SummaryText(outcome) ==
  CASE outcome = "text" -> "llm"
    [] outcome = "empty" -> ""
    [] OTHER -> "raw"

RECURSIVE SummariseLoop(_, _, _, _)
\* The for loop of summarizeMessages from round i to its next await
\* (createSummary for a round with execution messages) or to its end.
SummariseLoop(msgs, new, i, outs) ==
  LET users == SortedSeq(UserIndices(msgs)) IN
  IF i > Len(users) THEN [pc |-> "done", new |-> new, i |-> i, outs |-> outs]
  ELSE IF ExecutionMessages(msgs, users, i) # <<>>
  THEN [pc |-> "createSummary", new |-> Append(new, msgs[users[i]]), i |-> i, outs |-> outs]
  ELSE SummariseLoop(msgs, Append(new, msgs[users[i]]), i + 1, Append(outs, "none"))

\* What a step of the summarising agent leaves alone.
SumOnly(others) ==
  UNCHANGED <<progVars, promptVars, timedVars, replyVars, userDbVars, relVars,
              genVars,
              argVars, others>>

\* The loop of summarizeMessages rests at r: at createSummary, or at its end
\* where the list is replaced and skipNextTokenCheck is set; run() then
\* calls the LLM.
LoopRests(r) ==
  /\ outcomes' = r.outs
  /\ IF r.pc = "done"
     THEN /\ ctxMessages' = r.new
          /\ skipNextTokenCheck' = TRUE
          /\ sumPc' = "llm"
          /\ newMessages' = <<>>
          /\ round' = 0
          /\ summaries' = summaries + 1
          /\ entriesSince' = 0
          /\ freshSince' = FALSE
     ELSE /\ newMessages' = r.new
          /\ round' = r.i
          /\ sumPc' = "createSummary"
          /\ UNCHANGED <<ctxMessages, skipNextTokenCheck, summaries, entriesSince, freshSince>>

\* contextManager.addUserMessage, between two runs.
AddUserMessage ==
  /\ sumPc = "idle"
  /\ Cardinality({k \in 1..Len(ctxMessages) : ctxMessages[k].role = "user" /\ ctxMessages[k].kind = ""}) < MaxUsers
  /\ ctxMessages' = Append(ctxMessages,
        UserMsg(1 + Cardinality({k \in 1..Len(ctxMessages) : ctxMessages[k].role = "user" /\ ctxMessages[k].kind = ""})))
  /\ SumOnly(<<apiTotalTokens, skipNextTokenCheck, sumPc, sumStep, newMessages, round, outcomes,
               sumRuns, summaries, entriesSince, freshSince>>)

\* Agent.run() is called: the while loop is entered.
SumRun ==
  /\ sumPc = "idle"
  /\ sumRuns < MaxSumRuns
  /\ sumRuns' = sumRuns + 1
  /\ sumStep' = 0
  /\ sumPc' = IF 0 < maxSteps THEN "check" ELSE "idle"
  /\ SumOnly(<<ctxMessages, apiTotalTokens, skipNextTokenCheck, newMessages, round, outcomes,
               summaries, entriesSince, freshSince>>)

\* shouldSummarize: the local estimate or the API count exceeds the limit.
ShouldSummarize == EstimateTokens(ctxMessages) > tokenLimit \/ apiTotalTokens > tokenLimit

\* summarizeMessages() is entered, and runs to its return or to its first
\* createSummary.
SummarizeMessages ==
  /\ sumPc = "check"
  /\ (~skipNextTokenCheck /\ ShouldSummarize /\ UserIndices(ctxMessages) # {}) => summaries < MaxSummaries
  /\ IF skipNextTokenCheck
     THEN /\ skipNextTokenCheck' = FALSE
          /\ sumPc' = "llm"
          /\ entriesSince' = IF entriesSince < 2 THEN entriesSince + 1 ELSE 2
          /\ UNCHANGED <<ctxMessages, newMessages, round, outcomes, summaries, freshSince>>
     ELSE IF ~ShouldSummarize \/ UserIndices(ctxMessages) = {}
     THEN /\ sumPc' = "llm"
          /\ entriesSince' = IF entriesSince < 2 THEN entriesSince + 1 ELSE 2
          /\ UNCHANGED <<ctxMessages, skipNextTokenCheck, newMessages, round, outcomes,
                         summaries, freshSince>>
     ELSE LoopRests(SummariseLoop(ctxMessages, <<ctxMessages[1]>>, 1, <<>>))
  /\ SumOnly(<<apiTotalTokens, sumStep, sumRuns>>)

\* createSummary's LLM call settles: with a text, with empty content, or
\* with an error; the loop goes on.
CreateSummaryReturn ==
  /\ sumPc = "createSummary"
  /\ \E outcome \in {"text", "empty", "fail"} :
       LoopRests(SummariseLoop(ctxMessages,
                               IF SummaryText(outcome) # ""
                               THEN Append(newMessages, SummaryMsg(SummaryText(outcome), round))
                               ELSE newMessages,
                               round + 1, Append(outcomes, outcome)))
  /\ SumOnly(<<apiTotalTokens, sumStep, sumRuns>>)

\* The usage.total_tokens values an LLM response reports: none, one below
\* and one above the limit.
Usages == {"none", "low", "high"}

\* updateApiTokens.
UpdateApiTokens(usage) ==
  CASE usage = "low" -> 0
    [] usage = "high" -> tokenLimit + 1
    [] OTHER -> apiTotalTokens

\* The LLM call of run() settles with a response (with or without tool
\* calls, whose tools then run), or throws and run() returns.
SumLLMReturn ==
  /\ sumPc = "llm"
  /\ \/ \E usage \in Usages, toolCalls \in BOOLEAN :
          /\ apiTotalTokens' = UpdateApiTokens(usage)
          /\ freshSince' = (freshSince \/ usage # "none")
          /\ IF toolCalls
             THEN /\ ctxMessages' = ctxMessages \o <<AssistantMsg, ToolMsg>>
                  /\ sumStep' = sumStep + 1
                  /\ sumPc' = IF sumStep + 1 < maxSteps THEN "check" ELSE "idle"
             ELSE /\ ctxMessages' = Append(ctxMessages, AssistantMsg)
                  /\ sumPc' = "idle"
                  /\ UNCHANGED sumStep
     \/ /\ sumPc' = "idle"
        /\ UNCHANGED <<ctxMessages, apiTotalTokens, sumStep, freshSince>>
  /\ SumOnly(<<skipNextTokenCheck, newMessages, round, outcomes, sumRuns, summaries, entriesSince>>)

\* The summarising agent and its callers.
NextSum ==
  \/ AddUserMessage
  \/ SumRun
  \/ SummarizeMessages
  \/ CreateSummaryReturn
  \/ SumLLMReturn

SpecSum == Init /\ [][NextSum]_vars


\* ------------------------------------------------------ EmaReplyTool.execute
\* Argument values: strings are sequences of characters, here a space and a
\* letter; NotAString is a value that is not a string (undefined, a number).
Chars == {" ", "a"}
Strings == UNION {[1..n -> Chars] : n \in 0..MaxStr}
NotAString == <<"undefined">>
IsString(v) == v \in Strings

\* z.enum([...]) of expression and of action, as the strings' names.
Expressions == {"neutral", "smile", "serious", "confused", "surprised", "sad"}
Actions == {"none", "nod", "shake", "wave", "jump", "point"}

\* The values passed for expression and action: the allowed ones, one that
\* differs in case, one that is no member, and a non-string.
ExpressionArgs == Expressions \cup {"Smile", "grin", "undefined"}
ActionArgs == Actions \cup {"Nod", "run", "undefined"}

RECURSIVE TrimStart(_)
\* The string without its leading whitespace.
TrimStart(str) == IF str # <<>> /\ Head(str) = " " THEN TrimStart(Tail(str)) ELSE str

RECURSIVE TrimEnd(_)
\* The string without its trailing whitespace.
TrimEnd(str) ==
  IF str # <<>> /\ str[Len(str)] = " " THEN TrimEnd(SubSeq(str, 1, Len(str) - 1)) ELSE str

\* Mutant of Trim: the string is checked as given.
TrimNothing(str) == str

\* z.string().trim().
Trim(str) == TrimEnd(TrimStart(str))

\* z.string().trim().min(1): the value parses.
ParsesAsText(v) == IsString(v) /\ Len(Trim(v)) >= 1

\* EmaReplySchema.parse succeeds on the object built from the arguments.
SchemaParses(args) ==
  /\ ParsesAsText(args.think)
  /\ args.expression \in Expressions
  /\ args.action \in Actions
  /\ ParsesAsText(args.response)

\* The parsed payload: the text fields trimmed.
Payload(args) ==
  [think |-> Trim(args.think), expression |-> args.expression,
   action |-> args.action, response |-> Trim(args.response)]

\* execute: the ToolResult of the try branch or of the catch branch.
Execute(args) ==
  IF SchemaParses(args)
  THEN [success |-> TRUE, content |-> <<Payload(args)>>, error |-> FALSE]
  ELSE [success |-> FALSE, content |-> <<>>, error |-> TRUE]

\* What a step of the reply tool leaves alone.
ReplyOnly(others) ==
  UNCHANGED <<progVars, promptVars, timedVars, sumVars, userDbVars, relVars,
              genVars,
              argVars, others>>

\* execute(think, expression, action, response) is called.
ExecuteCall ==
  /\ replyPc = "idle"
  /\ \E think \in Strings \cup {NotAString}, expression \in ExpressionArgs,
        action \in ActionArgs, response \in Strings \cup {NotAString} :
       replyArgs' = [think |-> think, expression |-> expression,
                     action |-> action, response |-> response]
  /\ replyPc' = "called"
  /\ ReplyOnly(replyResult)

\* execute returns its ToolResult.
ExecuteReturn ==
  /\ replyPc = "called"
  /\ replyResult' = Execute(replyArgs)
  /\ replyPc' = "done"
  /\ ReplyOnly(replyArgs)

\* The caller has taken the result.
ResultTaken ==
  /\ replyPc = "done"
  /\ replyPc' = "idle"
  /\ replyArgs' = <<>>
  /\ replyResult' = <<>>
  /\ ReplyOnly(<<>>)

\* EmaReplyTool.execute called with any arguments.
NextReply ==
  \/ ExecuteCall
  \/ ExecuteReturn
  \/ ResultTaken

SpecReply == Init /\ [][NextReply]_vars


\* -------------------------------------------------- MongoUserDB, mongo.util
\* The names a user entity carries.
UserNames == {"Test User", "Updated User"}

\* Indices of the documents of coll whose id field equals id.
Matching(coll, id) == {k \in 1..Len(coll) : coll[k].id = id}

\* collection.findOne({ id }): the first matching document, or null.
FindOne(coll, id) ==
  IF Matching(coll, id) = {} THEN Null ELSE <<coll[Min(Matching(coll, id))]>>

\* collection.updateOne({ id }, { $set: entity }, { upsert: true }).
UpdateOneUpsert(coll, entity) ==
  IF Matching(coll, entity.id) = {}
  THEN Append(coll, entity)
  ELSE [coll EXCEPT ![Min(Matching(coll, entity.id))] = entity]

\* result.deletedCount of collection.deleteOne({ id }).
DeletedCount(coll, id) == IF Matching(coll, id) = {} THEN 0 ELSE 1

\* Mutant of DeleteOne: the document stays in the collection.
DeleteOneKeeps(coll, id) == coll

\* The collection after collection.deleteOne({ id }).
DeleteOne(coll, id) ==
  IF Matching(coll, id) = {}
  THEN coll
  ELSE LET k == Min(Matching(coll, id))
       IN SubSeq(coll, 1, k - 1) \o SubSeq(coll, k + 1, Len(coll))

\* What a step of the user database leaves alone.
UserDbOnly(others) ==
  UNCHANGED <<progVars, promptVars, timedVars, sumVars, replyVars, relVars,
              genVars,
              argVars, others>>

\* The call op on id has returned: a boolean for a delete, the document
\* or null for a get.
Returned(op, id, ok, doc) ==
  /\ lastOp' = [op |-> op, id |-> id, ok |-> ok, doc |-> doc]
  /\ prevOp' = lastOp

\* upsertUser(entity) -> upsertEntity: an entity without id gets the next
\* counter value, then the document is updated or inserted.
UpsertUser ==
  \E id \in (1..MaxEntityId) \cup {Undefined}, name \in UserNames :
    LET generate == id = Undefined
        newId == IF generate THEN counterSeq + 1 ELSE id
    IN /\ generate => counterSeq < MaxEntityId
       /\ counterSeq' = IF generate THEN counterSeq + 1 ELSE counterSeq
       /\ usersColl' = UpdateOneUpsert(usersColl, [id |-> newId, name |-> name])
       /\ Returned("upsert", newId, TRUE, Null)
       /\ UserDbOnly(<<>>)

\* deleteUser(id) -> deleteEntity: an id that is no number returns false
\* without touching the collection.
DeleteUser ==
  \E id \in (1..(MaxEntityId + 1)) \cup {Undefined} :
    /\ IF id = Undefined
       THEN /\ usersColl' = usersColl
            /\ Returned("delete", id, FALSE, Null)
       ELSE /\ usersColl' = DeleteOne(usersColl, id)
            /\ Returned("delete", id, DeletedCount(usersColl, id) > 0, Null)
    /\ UserDbOnly(counterSeq)

\* getUser(id): the stored entity or null.
GetUser ==
  \E id \in 1..(MaxEntityId + 1) :
    /\ Returned("get", id, FindOne(usersColl, id) # Null, FindOne(usersColl, id))
    /\ UserDbOnly(<<usersColl, counterSeq>>)

\* One client calling MongoUserDB, each call awaited before the next.
NextUserDb ==
  \/ UpsertUser
  \/ DeleteUser
  \/ GetUser

SpecUserDb == Init /\ [][NextUserDb]_vars


\* ------------------------------------------------------ MongoUserOwnActorDB
\* The relations callers pass.
RelUserIds == {"user-1", "user-2"}
RelActorIds == {"actor-1"}
Relations == [userId : RelUserIds, actorId : RelActorIds]

\* Indices of the documents matching { userId, actorId }.
MatchingRelation(coll, rel) == {k \in 1..Len(coll) : coll[k] = rel}

\* What a step of the relation database leaves alone.
RelOnly(others) ==
  UNCHANGED <<progVars, promptVars, timedVars, sumVars, replyVars, userDbVars,
              genVars,
              argVars, others>>

\* The call of caller c settles with the given outcome.
Settle(c, outcome) ==
  /\ relPc' = [relPc EXCEPT ![c] = "idle"]
  /\ relResult' = [relResult EXCEPT ![c] = outcome]
  /\ relArg' = [relArg EXCEPT ![c] = NoRelation]

\* createIndices: builds the unique index; createIndex fails on a
\* collection that already holds a duplicate.
CreateIndices ==
  /\ ~uniqueIndex
  /\ \A rel \in Relations : Cardinality(MatchingRelation(relations, rel)) <= 1
  /\ uniqueIndex' = TRUE
  /\ RelOnly(<<relations, relPc, relArg, relResult>>)

\* addActorToUser(entity) is called and awaits findOne.
AddActorToUserCall(c) ==
  /\ relPc[c] = "idle"
  /\ \E rel \in Relations : relArg' = [relArg EXCEPT ![c] = rel]
  /\ relPc' = [relPc EXCEPT ![c] = "find"]
  /\ RelOnly(<<relations, uniqueIndex, relResult>>)

\* findOne settles: an existing relation returns false, otherwise the
\* call goes on to insertOne.
AddFindOne(c) ==
  /\ relPc[c] = "find"
  /\ IF MatchingRelation(relations, relArg[c]) # {}
     THEN Settle(c, "false")
     ELSE /\ relPc' = [relPc EXCEPT ![c] = "insert"]
          /\ UNCHANGED <<relArg, relResult>>
  /\ RelOnly(<<relations, uniqueIndex>>)

\* insertOne settles: with the unique index a duplicate is rejected and
\* the call throws; otherwise the document is inserted and the call
\* returns true.
AddInsertOne(c) ==
  /\ relPc[c] = "insert"
  /\ IF uniqueIndex /\ MatchingRelation(relations, relArg[c]) # {}
     THEN /\ relations' = relations
          /\ Settle(c, "threw")
     ELSE /\ relations' = Append(relations, relArg[c])
          /\ Settle(c, "true")
  /\ RelOnly(uniqueIndex)

\* removeActorFromUser(entity) is called and awaits deleteOne.
RemoveActorFromUserCall(c) ==
  /\ relPc[c] = "idle"
  /\ \E rel \in Relations : relArg' = [relArg EXCEPT ![c] = rel]
  /\ relPc' = [relPc EXCEPT ![c] = "delete"]
  /\ RelOnly(<<relations, uniqueIndex, relResult>>)

\* deleteOne settles: the first matching document is removed.
RemoveDeleteOne(c) ==
  /\ relPc[c] = "delete"
  /\ LET m == MatchingRelation(relations, relArg[c])
     IN IF m = {}
        THEN /\ relations' = relations
             /\ Settle(c, "false")
        ELSE /\ relations' = SubSeq(relations, 1, Min(m) - 1)
                               \o SubSeq(relations, Min(m) + 1, Len(relations))
             /\ Settle(c, "true")
  /\ RelOnly(uniqueIndex)

\* Callers of MongoUserOwnActorDB, their calls interleaved at the awaits.
NextRel ==
  \/ CreateIndices
  \/ \E c \in 1..MaxCallers :
       \/ AddActorToUserCall(c)
       \/ AddFindOne(c)
       \/ AddInsertOne(c)
       \/ RemoveActorFromUserCall(c)
       \/ RemoveDeleteOne(c)

SpecRel == Init /\ [][NextRel]_vars


\* ------------------------------------- llm.generate: mainLoop to the provider
\* What a step of the generate call chain leaves alone.
GenOnly(others) ==
  UNCHANGED <<progVars, promptVars, timedVars, sumVars, replyVars, userDbVars, relVars,
              argVars, others>>

\* mainLoop calls this.llm.generate(messages, tools, systemPrompt,
\* this.abortController?.signal): the arguments as passed.
MainLoopGenerate ==
  /\ genPc = "idle"
  /\ genCalls < MaxGenCalls
  /\ genCalls' = genCalls + 1
  /\ \E n \in 1..MaxGenMessages, tools \in {"undefined", "tools"},
        prompt \in {"", "prompt"} :
       genArgs' = [messages |-> n, tools |-> tools, systemPrompt |-> prompt,
                   signal |-> "signal"]
  /\ genPc' = "client"
  /\ signalAborted' = FALSE
  /\ genOutcome' = "none"
  /\ GenOnly(<<>>)

\* LLMClient.generate(messages, tools?, systemPrompt?) returns
\* this.client.generate(messages, tools, systemPrompt): the arguments the
\* provider client receives.
ClientForwards(args) ==
  [messages |-> args.messages, tools |-> args.tools, systemPrompt |-> args.systemPrompt,
   signal |-> "undefined"]

\* LLMClient.generate runs and calls the provider client.
ClientGenerate ==
  /\ genPc = "client"
  /\ genArgs' = ClientForwards(genArgs)
  /\ genPc' = "provider"
  /\ GenOnly(<<signalAborted, genOutcome, genCalls>>)

\* abort() during the run: abortController.abort() fires the signal.
GenAbort ==
  /\ genPc \in {"client", "provider"}
  /\ ~signalAborted
  /\ signalAborted' = TRUE
  /\ GenOnly(<<genPc, genArgs, genOutcome, genCalls>>)

\* The provider call settles: it can end by cancellation only when it holds
\* a signal and that signal has fired.
ProviderSettles ==
  /\ genPc = "provider"
  /\ \E outcome \in {"response", "AbortError"} :
       /\ outcome = "AbortError" => (genArgs.signal = "signal" /\ signalAborted)
       /\ genOutcome' = outcome
  /\ genPc' = "settled"
  /\ GenOnly(<<genArgs, signalAborted, genCalls>>)

\* mainLoop resumes with the outcome; the run ends.
GenTaken ==
  /\ genPc = "settled"
  /\ genPc' = "idle"
  /\ genArgs' = NoArgs
  /\ GenOnly(<<signalAborted, genOutcome, genCalls>>)

\* One llm.generate call at a time, with abort() at any point of it.
NextGen ==
  \/ MainLoopGenerate
  \/ ClientGenerate
  \/ GenAbort
  \/ ProviderSettles
  \/ GenTaken

SpecGen == Init /\ [][NextGen]_vars


\* ------------------------------------------- mainLoop: positional tool arguments
\* An object is the sequence of its own entries in enumeration order.
ArgKeys == {"a", "b", "c"}
ArgValues == {"x", "y"}

\* The sequences over S of length at most n without a repeated element.
DistinctSeqs(S, n) ==
  {q \in UNION {[1..m -> S] : m \in 0..n} : \A i, j \in 1..Len(q) : i # j => q[i] # q[j]}

\* tool.parameters.properties: absent, or an object with these keys.
PropsObjects ==
  {[declared |-> FALSE, keys |-> <<>>]}
    \cup {[declared |-> TRUE, keys |-> ks] : ks \in DistinctSeqs(ArgKeys, MaxProps)}

\* toolCall.args: entries [key, value] with distinct keys.
ArgsObjects ==
  {q \in UNION {[1..m -> [key : ArgKeys, value : ArgValues]] : m \in 0..MaxArgs} :
     \A i, j \in 1..Len(q) : i # j => q[i].key # q[j].key}

\* callArgs[key]: the value under the key, or undefined.
Member(obj, key) ==
  IF \E k \in 1..Len(obj) : obj[k].key = key
  THEN obj[CHOOSE k \in 1..Len(obj) : obj[k].key = key].value
  ELSE "undefined"

\* Object.values(callArgs).
ObjectValues(obj) == [k \in 1..Len(obj) |-> obj[k].value]

\* Mutant of PositionalArgs: the values of the args object, whatever the schema.
PositionalArgsValuesOnly(props, args) == ObjectValues(args)

\* props ? Object.keys(props).map((key) => callArgs[key]) : Object.values(callArgs).
PositionalArgs(props, args) ==
  IF props.declared
  THEN [k \in 1..Len(props.keys) |-> Member(args, props.keys[k])]
  ELSE ObjectValues(args)

\* What a step of the argument passing leaves alone.
ArgOnly(others) ==
  UNCHANGED <<progVars, promptVars, timedVars, sumVars, replyVars, userDbVars, relVars,
              genVars, others>>

\* mainLoop executes a call of a registered tool: tool.execute(...positionalArgs).
ExecuteToolCall ==
  /\ argPc = "idle"
  /\ \E props \in PropsObjects, args \in ArgsObjects :
       /\ toolProps' = props
       /\ callArgs' = args
       /\ positionalArgs' = PositionalArgs(props, args)
  /\ argPc' = "executed"
  /\ ArgOnly(<<>>)

\* The tool call is answered; mainLoop goes on to the next call.
ToolCallAnswered ==
  /\ argPc = "executed"
  /\ argPc' = "idle"
  /\ toolProps' = [declared |-> FALSE, keys |-> <<>>]
  /\ callArgs' = <<>>
  /\ positionalArgs' = <<>>
  /\ ArgOnly(<<>>)

\* Tool calls executed one after the other.
NextArgs ==
  \/ ExecuteToolCall
  \/ ToolCallAnswered

SpecArgs == Init /\ [][NextArgs]_vars


\* ===================================================================== claims
\* ---- observations used by the claims
\* Number of runFinished events of run r.
FinishedCount(r) ==
  Cardinality({k \in 1..Len(eventStream) :
                 eventStream[k].type = "runFinished" /\ eventStream[k].run = r})

\* Run r emitted an emaReplyReceived event.
Replied(r) ==
  \E k \in 1..Len(eventStream) :
    eventStream[k].type = "emaReplyReceived" /\ eventStream[k].run = r

\* Run r has ended: its mainLoop has returned.
RunEnded(r) == r < runId \/ (r = runId /\ agentPc \in {"finished", "idle"})

\* Every Model message of msgs is followed directly by exactly one Tool
\* message per tool call, with the same ids in the same order.
Paired(msgs) ==
  \A k \in 1..Len(msgs) :
    msgs[k].role = "model" =>
      LET n == Len(msgs[k].toolCalls) IN
        /\ k + n <= Len(msgs)
        /\ \A j \in 1..n : /\ msgs[k + j].role = "tool"
                           /\ msgs[k + j].id = msgs[k].toolCalls[j].id
                           /\ msgs[k + j].name = msgs[k].toolCalls[j].name
        /\ k + n + 1 <= Len(msgs) => msgs[k + n + 1].role # "tool"

\* The input ids of the user messages of msgs, in order.
UserIds(msgs) ==
  LET us == SelectIdx(msgs, 1, {k \in 1..Len(msgs) : msgs[k].role = "user"})
  IN [k \in 1..Len(us) |-> us[k].id]

IsSuffix(a, b) == Len(a) <= Len(b) /\ SubSeq(b, Len(b) - Len(a) + 1, Len(b)) = a

\* The buffer records of the events that enqueue a write, in emission order:
\* each accepted input and each structured reply.
ExpectedWrites ==
  LET es == SelectIdx(eventStream, 1,
                      {k \in 1..Len(eventStream) : eventStream[k].type \in {"message", "emaReplyReceived"}})
  IN [k \in 1..Len(es) |->
        IF es[k].type = "message" THEN UserBuffer(es[k].id) ELSE EmaBuffer(es[k].id)]

\* The input ids of the user records of the buffer, in buffer order.
BufferUserIds ==
  LET us == SelectIdx(buffer, 1, {k \in 1..Len(buffer) : buffer[k].kind = "user"})
  IN [k \in 1..Len(us) |-> us[k].id]

\* Position of x in the sequence s (0 when absent).
PosIn(s, x) == IF \E k \in 1..Len(s) : s[k] = x
               THEN CHOOSE k \in 1..Len(s) : s[k] = x ELSE 0

\* ---- C1
\* C1: at most one Agent run is in flight at any time: runWithState is never
\* started while the promise of an earlier runWithState is still pending.
C1_OneRunInFlight == inFlight <= 1 /\ (procPc = "start" => agentStatus = "idle")

\* A second run is in flight after an input arrived while the first one was.
C1_Witness == runId = 2 /\ inFlight = 1 /\ arrivedAt[2] = 1

\* ---- C2
\* C2 (as claimed): every run that has ended emitted exactly one runFinished
\* event, and no run emits more than one.
C2_ExactlyOneRunFinished ==
  \A r \in 1..runId :
    /\ FinishedCount(r) <= 1
    /\ RunEnded(r) => FinishedCount(r) = 1

\* ---- C3
\* C3 (as claimed): whenever LLM.generate is called, every Model message of
\* the history handed to it is followed directly by exactly its K Tool
\* messages, with the call ids in emitted order.
C3_ToolCallsAnswered == agentPc = "llm" => Paired(agentState.messages)

\* ---- C4
\* C4: a work() call made while a run is in flight requests abort on that
\* run and leaves its input in the queue; an input becomes a user message of
\* an AgentState only while no run is in flight, for a run that starts later
\* than the one it arrived in; no queued input is in the running state.
C4_PreemptAndDefer ==
  [][/\ (nextInput' = nextInput + 1 /\ currentRunPromise = "pending") =>
          /\ abortRequested'
          /\ nextInput \in Range(queue')
          /\ handedAt'[nextInput] = 0
          /\ agentState' = agentState
     /\ \A i \in 1..MaxInputs :
          (handedAt[i] = 0 /\ handedAt'[i] # 0) =>
             /\ inFlight = 0
             /\ agentStatus = "idle"
             /\ handedAt'[i] > arrivedAt[i]
             /\ handedAt'[i] = runId + 1]_vars

\* An input that arrived during run 1 is a user message of run 2's state.
C4_Witness ==
  /\ arrivedAt[2] = 1
  /\ handedAt[2] = 2
  /\ runId = 2
  /\ UserMessage(2) \in Range(agentState.messages)

\* ---- C5
\* C5 (as claimed): the run after a preempted run resumes the cached state if
\* and only if the preempted run emitted no emaReplyReceived.
C5_ResumeIffNoReply ==
  \A r \in 2..runId :
    runs[r - 1].preempted => (runs[r].resumed <=> ~Replied(r - 1))

C8_WritesAfterFailure ==
  /\ failedWrites # {} => logged >= 1
  /\ (writeChain = <<>> /\ writing = {}) =>
        \A m \in Range(ExpectedWrites) : m \notin failedWrites => m \in Range(buffer)

Edges ==
  {<<"idle", "preparing">>, <<"preparing", "running">>,
   <<"running", "idle">>, <<"running", "preparing">>}

\* C10: the status changes only idle -> preparing, preparing -> running,
\* running -> idle (the run ended, queue empty, no resume pending) and
\* running -> preparing (the run ended, inputs pending).
C10_StatusEdges ==
  [][currentStatus' # currentStatus =>
       /\ <<currentStatus, currentStatus'>> \in Edges
       /\ currentStatus = "running" =>
            /\ currentRunPromise' = "null"
            /\ currentStatus' = "idle" => (queue = <<>> /\ ~resumeStateAfterAbort)
            /\ currentStatus' = "preparing" => queue # <<>>]_vars

\* The status is "preparing" again after a run, and later "idle" again.
C10_Witness == currentStatus = "idle" /\ runId = 2 /\ arrivedAt[2] = 1

\* ---- C11
IsPrefixOf(a, b) == Len(a) <= Len(b) /\ SubSeq(b, 1, Len(a)) = a

\* C11 (as claimed): for every subscriber the events arrays it was called
\* with, concatenated, are the actor's event sequence in emission order:
\* always a prefix of it (nothing duplicated or out of order), and all of
\* it whenever no broadcast is in progress and the subscriber is registered;
\* also when work() or subscribe() is called from inside a callback.
C11_EventsInEmissionOrder ==
  \A sub \in Subs :
    lastStatus[sub] # "" =>
      /\ IsPrefixOf(received[sub], eventStream)
      /\ (AtTopLevel /\ sub \in Range(subscribers)) => received[sub] = eventStream

\* ---- C12
\* C12: subscribe(cb) calls cb with the current status and all events emitted
\* so far; cb is not yet in the subscriber set then, is called by nothing
\* else until subscribe() has added it, and is added only after that call.
C12_SubscribeSnapshot ==
  [][\A sub \in Subs :
       /\ (lastStatus[sub] = "" /\ lastStatus'[sub] # "") =>
            /\ lastStatus'[sub] = currentStatus
            /\ received'[sub] = eventStream
            /\ sub \notin Range(subscribers')
            /\ stack' = stack \o <<ContFrame("subscribeAdd", sub), CbFrame(sub)>>
       /\ (lastStatus[sub] # "" /\ sub \notin Range(subscribers)) =>
            /\ received'[sub] = received[sub]
            /\ lastStatus'[sub] = lastStatus[sub]
       /\ sub \in Range(subscribers') => lastStatus[sub] # ""]_vars

\* A callback was called by subscribe() during a run, with both events
\* emitted so far, and a second one from inside a callback.
C12_Witness ==
  /\ lastStatus[1] = "running"
  /\ Len(received[1]) >= 2
  /\ lastStatus[2] # ""
  /\ \E k \in 1..Len(stack) : stack[k].kind = "bcast"
  /\ 2 \notin Range(subscribers)

\* ---- C13
\* C13 (as claimed): when a callback throws during a broadcast, the for loop
\* goes on with the subscribers after it and the code that emitted the
\* event continues as if the callback had returned.
C13_SubscriberErrorsIsolated ==
  [][thrown' # thrown => stack' = LoopOn(Pop(stack), subscribers)]_vars

\* ---- C14
\* C14: a work() call with an empty input list or with a non-text item
\* changes nothing: no event, nothing queued, no buffer write, same status,
\* no abort of a running run.
C14_InvalidInputRejected ==
  [][invalidCalls' # invalidCalls =>
       UNCHANGED <<actorVars, chainVars, procVars, agentVars, obsVars, eventStream, eventIdx>>]_vars

\* An invalid call was made and the run in flight goes on, not aborted.
C14_Witness ==
  /\ invalidCalls = 1
  /\ agentPc = "llm"
  /\ currentStatus = "running"
  /\ ~abortRequested
  /\ queue = <<>>

\* ---- C15
\* The main loop is between two awaits or inside the structured-reply emit.
RunInProgress == agentPc \in {"llm", "tool", "emitReply"}

\* The main loop takes a step.
MainLoopMoves ==
  \/ <<agentPc, step, pendingCalls>>' # <<agentPc, step, pendingCalls>>
  \/ agentState'.messages # agentState.messages

\* C15 (as claimed): once abort() was called during a run, the next step of
\* the main loop ends the run with runFinished "Aborted" (a tool that was
\* executing may first have its structured reply emitted), at every step of
\* the run; and a run that has ended emits no further event.
C15_AbortEndsRun ==
  [][/\ (abortRequested /\ RunInProgress /\ MainLoopMoves) =>
          \/ agentPc = "tool" /\ agentPc' = "emitReply"
          \/ /\ agentPc' = "finished"
             /\ eventStream' = Append(eventStream, RunFinishedEvent(runId, "Aborted"))
     /\ (~RunInProgress /\ runId >= 1 /\ runId' = runId) =>
          \A k \in (Len(eventStream) + 1)..Len(eventStream') : eventStream'[k].run # runId]_vars

\* ---- C16
\* C16: an abort() call made when abort was already requested in this run
\* changes nothing of the agent (flag, status, position, history, events),
\* so the run goes on exactly as after the first call; and no run emits a
\* second runFinished.
C16_AbortIdempotent ==
  /\ [][(aborts' = aborts + 1 /\ abortRequested) =>
            UNCHANGED <<agentVars, agentState, eventStream, runPc, called>>]_vars
  /\ [](\A r \in 1..runId : FinishedCount(r) <= 1)

\* abort() was called twice while the first LLM call of a run was pending.
C16_Witness ==
  /\ aborts = 2
  /\ abortRequested
  /\ agentPc = "llm"
  /\ step = 0
  /\ runPc = "loop"

\* ---- C17
\* C17: the first call of the loop continuation in a run() installs the
\* state passed to it and runs the main loop; every later call throws and
\* changes neither the active state nor the main loop; and as long as the
\* continuation was not called the run has made no LLM call and emitted no
\* event.
C17_LoopOnce ==
  /\ [][
        /\ (loopCalls' = loopCalls + 1 /\ loopCalls = 0) =>
              (/\ called'
               /\ agentState' = LoopState(passed')
               /\ agentPc' \in {"llm", "finished"}
               /\ loopErrors' = loopErrors)
        /\ (loopCalls' = loopCalls + 1 /\ loopCalls > 0) =>
              (/\ loopErrors' = loopErrors + 1
               /\ UNCHANGED <<agentVars, agentState, eventStream>>)
     ]_vars
  /\ []((runId >= 1 /\ loopCalls = 0) =>
          (/\ agentPc = "idle"
           /\ \A k \in 1..Len(eventStream) : eventStream[k].run # runId))

\* A second call of the continuation, with another state, was refused while
\* the main loop started by the first call was at its LLM call.
C17_Witness ==
  /\ loopCalls = 2
  /\ loopErrors = 1
  /\ passed = 2
  /\ agentPc = "llm"
  /\ agentState = LoopState(1)

\* ---- C18
\* C18: every LLM call of a run is made with fewer than maxSteps steps done,
\* the first at step 0 and each later one after one more completed step, so
\* no run makes more than maxSteps LLM calls; and the step that completes
\* step number maxSteps ends the run with the runFinished event whose
\* message is the "couldn't be completed after maxSteps steps" one.
C18_MaxSteps ==
  /\ [](agentPc = "llm" => step < maxSteps)
  /\ [][
        /\ (agentPc' = "llm" /\ agentPc # "llm") =>
              (\/ runId' = runId + 1 /\ step' = 0
               \/ runId' = runId /\ agentPc \in {"tool", "emitReply"} /\ step' = step + 1)
        /\ (runId' = runId /\ step' = maxSteps /\ step # maxSteps) =>
              (/\ agentPc' = "finished"
               /\ eventStream' = Append(eventStream, RunFinishedEvent(runId, "MaxSteps")))
     ]_vars

\* A run answered with tool calls at every step has completed maxSteps steps
\* and ended with the max-steps runFinished, with no abort requested.
C18_Witness ==
  /\ agentPc = "finished"
  /\ step = maxSteps
  /\ ~abortRequested
  /\ eventStream # <<>>
  /\ eventStream[Len(eventStream)] = RunFinishedEvent(runId, "MaxSteps")

\* ---- C19
\* The messages a step appends to the history.
Appended == SubSeq(agentState'.messages, Len(agentState.messages) + 1, Len(agentState'.messages))

\* The step is one of the tool loop: the LLM answered with tool calls, or a
\* tool call was answered.
ToolLoopStep ==
  /\ runId' = runId
  /\ Len(agentState'.messages) > Len(agentState.messages)
  /\ \/ agentPc = "llm" /\ Appended[1].toolCalls # <<>>
     \/ agentPc \in {"tool", "emitReply"}

\* The tool calls the step starts from, and the Tool messages it appends.
CallsBefore == IF agentPc = "llm" THEN Appended[1].toolCalls ELSE pendingCalls
ToolMessagesAppended == IF agentPc = "llm" THEN Tail(Appended) ELSE Appended

\* The last event of the stream after the step is this run's runFinished
\* with message m.
EndsWith(m) ==
  /\ agentPc' = "finished"
  /\ eventStream' # <<>>
  /\ eventStream'[Len(eventStream')] = RunFinishedEvent(runId, m)

IsReplyToolMessage(m) == m.role = "tool" /\ m.name = "ema_reply" /\ m.result.success

\* C20: a successful ema_reply execution appends exactly one
\* emaReplyReceived event and nothing to the history; the Tool message of
\* that call is appended by the following step of the loop, after the event,
\* with success and without content; no other step emits the event, and no
\* successful ema_reply Tool message is appended without it.
C20_ReplyEmittedOnce ==
  [][
     /\ ReplyCount' <= ReplyCount + 1
     /\ ReplyCount' = ReplyCount + 1 =>
           (/\ agentPc = "tool"
            /\ Head(pendingCalls).name = "ema_reply"
            /\ agentPc' = "emitReply"
            /\ eventStream' = Append(eventStream, EmaReplyEvent(runId, ReplyCount + 1))
            /\ UNCHANGED <<agentState, pendingCalls, toolFailures>>)
     /\ (/\ agentPc = "tool"
         /\ Head(pendingCalls).name = "ema_reply"
         /\ <<agentPc, pendingCalls>>' # <<agentPc, pendingCalls>>
         /\ toolFailures' = toolFailures) => ReplyCount' = ReplyCount + 1
     /\ (agentPc = "emitReply" /\ agentPc' # "emitReply") =>
           (/\ ReplyCount' = ReplyCount
            /\ Appended # <<>>
            /\ Appended[1] = ToolMessage(Head(pendingCalls), Appended[1].result)
            /\ Appended[1].result.success
            /\ ~Appended[1].result.content)
     /\ \A j \in 1..Len(Appended) :
           IsReplyToolMessage(Appended[j]) =>
             (/\ agentPc = "emitReply"
              /\ j = 1
              /\ ~Appended[j].result.content)
  ]_vars

\* The reply tool succeeded once: one emaReplyReceived is in the stream and
\* the last message of the history is that call's Tool message, stripped.
C20_Witness ==
  /\ ReplyCount = 1
  /\ agentPc = "finished"
  /\ agentState.messages # <<>>
  /\ agentState.messages[Len(agentState.messages)] =
        ToolMessage([id |-> 1, name |-> "ema_reply"], StrippedToolResult)

\* ---- C21
\* C21 as stated: every stored ToolResult has success exactly when it has
\* content and exactly when it has no error.
C21_SuccessIffContent ==
  \A k \in 1..Len(agentState.messages) :
    agentState.messages[k].role = "tool" =>
      /\ agentState.messages[k].result.success <=> agentState.messages[k].result.content
      /\ agentState.messages[k].result.success <=> ~agentState.messages[k].result.error

\* C21 amended: every stored ToolResult has success exactly when it has no
\* error, a failed one has no content, and a successful one has content
\* unless it is the result of the structured-reply tool, which is stored
\* without content.
C21_ToolResultShape ==
  \A k \in 1..Len(agentState.messages) :
    LET m == agentState.messages[k] IN
    m.role = "tool" =>
      /\ m.result.success <=> ~m.result.error
      /\ ~m.result.success => ~m.result.content
      /\ m.result.success => (m.result.content <=> m.name # "ema_reply")

\* The history holds a successful tool result with content, then the
\* stripped result of a successful structured reply.
C21_Witness ==
  /\ Len(agentState.messages) >= 2
  /\ agentState.messages[Len(agentState.messages) - 1] = ToolMessage([id |-> 1, name |-> "tool"], OkToolResult)
  /\ agentState.messages[Len(agentState.messages)] = ToolMessage([id |-> 2, name |-> "ema_reply"], StrippedToolResult)

\* ---- C22
\* C22: the prompt buildSystemPrompt returns is the template with every
\* placeholder replaced by the text of the buffer window (the lines of the
\* last BufferWindow messages, or "None."), and holds no placeholder.
C22_EveryPlaceholderReplaced ==
  promptPc = "done" =>
    /\ Len(bufferWindow) <= BufferWindow
    /\ builtPrompt = ReplaceAll(template, BufferText(bufferWindow))
    /\ PlaceholdersIn(builtPrompt) = {}

\* ---- C23
\* The dates the next() calls of iterator i returned, in the order returned.
Consumed(i) ==
  LET yielded == SelectSeq(results[i], LAMBDA r : ~r.done)
  IN [k \in 1..Len(yielded) |-> yielded[k].value]

\* C23: for every iterator the dates returned by its next() calls are a
\* prefix of the dates passed to its startTimed callback, and while it is
\* not cancelled the dates fired are exactly those returned followed by
\* those queued, in order.
C23_ConsumedIsPrefixOfFired ==
  \A i \in 1..MaxIterators :
    /\ IsPrefixOf(Consumed(i), fired[i])
    /\ ~cancelled[i] => fired[i] = Consumed(i) \o timedList[i]
    /\ timedList[i] # <<>> => ~resolveResult[i]

\* An iterator returned one date that had been queued before next() was
\* called and one that resolved a waiting next().
C23_Witness ==
  /\ Len(Consumed(1)) = 2
  /\ \E k \in 1..Len(results[1]) : results[1][k].via = "list"
  /\ \E k \in 1..Len(results[1]) : results[1][k].via = "resolve"

\* ---- C24
\* The state of iterator i: its tab, its queue, its resolver, its schedule.
IteratorState(i) == <<cancelled[i], fired[i], timedList[i], resolveResult[i], results[i]>>

\* C24: return() sets the tab cancelled and changes nothing else; the
\* cancelled schedule does not fire and every next() on the cancelled
\* iterator returns done; a new iterator is exactly one more startTimed
\* call and starts empty and not cancelled; and no step on one iterator
\* changes the state of another.
C24_ReturnCancelsAndRestartable ==
  [][
     /\ \A i \in 1..MaxIterators :
          /\ (~cancelled[i] /\ cancelled'[i]) =>
                UNCHANGED <<started, fired, timedList, resolveResult, results>>
          /\ cancelled[i] =>
                (/\ cancelled'[i]
                 /\ fired'[i] = fired[i]
                 /\ results'[i] # results[i] => results'[i] = Append(results[i], Done))
          /\ IteratorState(i)' # IteratorState(i) =>
                \A j \in 1..MaxIterators \ {i} : IteratorState(j)' = IteratorState(j)
     /\ started' # started =>
          (/\ started' = started + 1
           /\ ~cancelled'[started']
           /\ fired'[started'] = <<>>
           /\ timedList'[started'] = <<>>
           /\ ~resolveResult'[started']
           /\ results'[started'] = <<>>
           /\ \A j \in 1..MaxIterators : IteratorState(j)' = IteratorState(j))
  ]_vars

\* The first iterator was cancelled with a date still queued and its next()
\* then returned done; a second iterator of the same iterable has returned
\* a date of its own schedule.
C24_Witness ==
  /\ cancelled[1]
  /\ timedList[1] # <<>>
  /\ results[1] = <<Done>>
  /\ started = 2
  /\ ~cancelled[2]
  /\ Len(results[2]) = 1
  /\ ~results[2][1].done

\* ---- C25
\* The step replaces the history by the summarised one.
Replaced == summaries' = summaries + 1

\* The original user messages of a history, in order.
OriginalUsers(msgs) == SelectSeq(msgs, LAMBDA m : m.role = "user" /\ m.kind = "")

\* C25: the step that replaces the history keeps the system prompt first,
\* keeps the original user messages, as many as before and in their order,
\* and keeps every message of role user (earlier summaries included) in order.
C25_UserMessagesKept ==
  [][Replaced =>
       /\ ctxMessages'[1] = ctxMessages[1]
       /\ ctxMessages[1] = SystemMsg
       /\ OriginalUsers(ctxMessages') = OriginalUsers(ctxMessages)
       /\ IsSubseq(SelectSeq(ctxMessages, LAMBDA m : m.role = "user"), ctxMessages')
  ]_vars

\* A history of two user messages, each followed by an execution round, has
\* been summarised, one summary from the LLM and one from a failed call.
C25_Witness ==
  /\ summaries = 1
  /\ sumPc = "llm"
  /\ ctxMessages = <<SystemMsg, UserMsg(1), SummaryMsg("llm", 1), UserMsg(2), SummaryMsg("raw", 2)>>

\* ---- C26
RECURSIVE ExpectedRounds(_, _, _)
\* The rounds from i on as the claim has them: each user message, followed
\* by one summary message when its round has execution messages, the raw
\* join when the summarising call failed and the LLM's summary otherwise.
ExpectedRounds(msgs, outs, i) ==
  LET users == SortedSeq(UserIndices(msgs)) IN
  IF i > Len(users) THEN <<>>
  ELSE <<msgs[users[i]]>>
       \o (IF ExecutionMessages(msgs, users, i) # <<>>
           THEN <<SummaryMsg(IF outs[i] = "fail" THEN "raw" ELSE "llm", i)>>
           ELSE <<>>)
       \o ExpectedRounds(msgs, outs, i + 1)

\* C26: the step that replaces the history leaves, for every round with
\* execution messages, one summary message right after the round's user
\* message: the LLM's summary, or the raw join when the LLM call failed.
C26_RoundNeverDropped ==
  [][Replaced =>
       /\ Len(outcomes') = Cardinality(UserIndices(ctxMessages))
       /\ ctxMessages' = <<ctxMessages[1]>> \o ExpectedRounds(ctxMessages, outcomes', 1)
  ]_vars

\* ---- C27
\* The step enters summarizeMessages and goes past its checks into the
\* summarisation.
Triggered == sumPc = "check" /\ (sumPc' = "createSummary" \/ Replaced)

\* C27: a summarisation after an earlier one is triggered neither at the
\* first entry to summarizeMessages since the history was replaced, nor
\* before an LLM call has reported usage since then.
C27_NoRetriggerBeforeFreshTokens ==
  [][(Triggered /\ summaries > 0) => (entriesSince >= 1 /\ freshSince)]_vars

\* ---- C28
\* A text argument is non-empty after trimming: it is a string with a
\* character that is not whitespace.
NonBlank(v) == IsString(v) /\ \E k \in 1..Len(v) : v[k] # " "

\* C28: execute returns success with content and no error exactly when
\* think and response are non-blank and expression and action are among the
\* allowed values, and otherwise failure with an error and no content.
C28_ReplyValidation ==
  replyPc = "done" =>
    /\ replyResult.success <=>
          (/\ NonBlank(replyArgs.think)
           /\ NonBlank(replyArgs.response)
           /\ replyArgs.expression \in {"neutral", "smile", "serious", "confused", "surprised", "sad"}
           /\ replyArgs.action \in {"none", "nod", "shake", "wave", "jump", "point"})
    /\ replyResult.success => (replyResult.content # <<>> /\ ~replyResult.error)
    /\ ~replyResult.success => (replyResult.content = <<>> /\ replyResult.error)

\* A call whose think had a leading space succeeded, the payload trimmed.
C28_Witness ==
  /\ replyPc = "done"
  /\ replyArgs.think = <<" ", "a">>
  /\ replyResult.success
  /\ replyResult.content[1].think = <<"a">>

\* ---- C29
\* An entity with this id is stored.
Exists(coll, id) == \E k \in 1..Len(coll) : coll[k].id = id

\* A delete returns in this step.
DeleteReturns == lastOp'.op = "delete" /\ <<lastOp, prevOp>>' # <<lastOp, prevOp>>

C30_OneRelationPerPair ==
  \A rel \in Relations : Cardinality(MatchingRelation(relations, rel)) <= 1

\* ---- C31
\* C31: while abort is requested and an LLM call is in flight, no step
\* changes the history, and the step in which the call settles (cancelled,
\* failed or with a normal response) ends the main loop with the history
\* as it was; the history then stays the same until the run has returned.
C31_AbortedCallLeavesHistory ==
  [][
     /\ (agentPc = "llm" /\ abortRequested) =>
          /\ agentState'.messages = agentState.messages
          /\ agentPc' \in {"llm", "finished"}
     /\ agentPc = "finished" => agentState'.messages = agentState.messages
    ]_vars

\* An LLM call answered with tool calls after abort was requested: the run
\* finished as aborted and the history holds no Model message.
C31_Witness ==
  /\ agentPc = "finished"
  /\ abortRequested
  /\ toolTurns = 1
  /\ agentState.messages = <<UserMessage(1)>>
  /\ eventStream[Len(eventStream)] = RunFinishedEvent(1, "Aborted")

\* ---- C32
\* C32: every LLM call of the main loop reaches the provider client with
\* the messages, tools and system prompt it was made with and with the
\* run's cancel signal.
C32_SignalReachesProvider ==
  genPc = "provider" =>
    /\ genArgs.signal = "signal"
    /\ genArgs.messages >= 1

\* ---- C33
\* The user messages of the inputs handed to the run about to start, in the
\* order they were handed.
NewlyPickedUp ==
  LET ids == SelectIdx(handed, 1, {k \in 1..Len(handed) : handedAt[handed[k]] = runId + 1})
  IN [k \in 1..Len(ids) |-> UserMessage(ids[k])]

\* C33: the finally block after a run discards the cached AgentState when
\* the resume flag is not set, and a run that does not resume is started
\* with a state whose messages are exactly the newly picked-up inputs.
C33_FreshStateForFreshRun ==
  /\ [][(procPc = "await" /\ procPc' # "await" /\ ~resumeStateAfterAbort)
          => agentState' = NullState]_vars
  /\ []((procPc = "start" /\ ~resumedNext) =>
          (agentState.present /\ agentState.messages = NewlyPickedUp))

\* The second run is about to start fresh with input 2 only, after a first
\* run that was handed input 1 and got Model and Tool messages.
C33_Witness ==
  /\ procPc = "start"
  /\ ~resumedNext
  /\ runId = 1
  /\ handed = <<1, 2>>
  /\ toolTurns = 1
  /\ agentState.messages = <<UserMessage(2)>>

\* ---- C34
\* C34: with declared properties the tool gets one argument per schema key,
\* in schema-key order: the value the args hold under that key, undefined
\* when they hold none; args entries under other keys are not passed.
\* Without declared properties it gets the values of the args in their order.
C34_PositionalArguments ==
  argPc = "executed" =>
    IF toolProps.declared
    THEN /\ Len(positionalArgs) = Len(toolProps.keys)
         /\ \A k \in 1..Len(positionalArgs) :
              /\ \A j \in 1..Len(callArgs) :
                   callArgs[j].key = toolProps.keys[k] => positionalArgs[k] = callArgs[j].value
              /\ (\A j \in 1..Len(callArgs) : callArgs[j].key # toolProps.keys[k])
                   => positionalArgs[k] = "undefined"
    ELSE /\ Len(positionalArgs) = Len(callArgs)
         /\ \A k \in 1..Len(callArgs) : positionalArgs[k] = callArgs[k].value

\* A schema with keys b, a and args with keys a, c: the tool got undefined
\* for b, the value of a, and nothing for c.
C34_Witness ==
  /\ argPc = "executed"
  /\ toolProps = [declared |-> TRUE, keys |-> <<"b", "a">>]
  /\ callArgs = <<[key |-> "a", value |-> "x"], [key |-> "c", value |-> "y"]>>
  /\ positionalArgs = <<"undefined", "x">>

\* ---- C35
\* C35: every input accepted by work() is eventually handed to a run, and
\* from any state with an empty queue and no run in flight the actor
\* eventually becomes idle.
C35_InputsHandedAndIdle ==
  /\ \A i \in 1..MaxInputs : (nextInput > i) ~> (handedAt[i] # 0)
  /\ (queue = <<>> /\ inFlight = 0) ~> (currentStatus = "idle")

\* Input 2 arrived while run 1 was in flight, was handed to run 2, and the
\* actor is idle again.
C35_Witness ==
  /\ currentStatus = "idle"
  /\ procPc = "none"
  /\ arrivedAt[2] = 1
  /\ handedAt[2] = 2
  /\ inFlight = 0

\* ---- C36
\* C36: also when the prompt build or the run rejects, every input in the
\* queue is eventually handed to a run, and from any state with an empty
\* queue and no run in flight the actor eventually becomes idle.
C36_RecoversAfterRejection ==
  /\ \A i \in 1..MaxInputs : (i \in Range(queue)) ~> (handedAt[i] # 0)
  /\ (queue = <<>> /\ inFlight = 0) ~> (currentStatus = "idle")

\* ---- C37
\* No work() call is executing: none runs processQueue and none awaits
\* the run promise.
NoWorkExecuting == processor = 0 /\ waiters = <<>>

\* C37: when the status is idle and no work() call is executing, the queue
\* is empty, there is no run promise, no cached AgentState, and the resume
\* flag is false.
C37_IdleIsQuiescent ==
  (currentStatus = "idle" /\ NoWorkExecuting) =>
    /\ queue = <<>>
    /\ currentRunPromise = "null"
    /\ agentState = NullState
    /\ ~resumeStateAfterAbort

\* Idle again after two runs, the first of them preempted by input 2.
C37_Witness ==
  /\ currentStatus = "idle"
  /\ NoWorkExecuting
  /\ runId = 2
  /\ runs[1].preempted
  /\ Len(returned) = 2

\* ---- C38
\* Buffer writes enqueued and not yet settled: chained callbacks not yet
\* run, and messages inside addBuffer.
PendingWrites == Range(writeChain) \cup writing

\* C38 (as claimed): when buildSystemPrompt reads the buffer window for a
\* fresh run, no buffer write enqueued before that run's queue pickup is
\* still pending; the writes of the picked-up inputs are among those.
C38_ReadAfterEnqueuedWrites ==
  [][(procPc = "build" /\ procPc' # "build") =>
       \A k \in 1..Len(batches) : UserBuffer(batches[k]) \notin PendingWrites]_vars

\* ---- C39
\* C39 (as claimed): cancelling a timed iterator loses nothing.  A next()
\* call made while a date is queued returns that date, cancelled or not, and
\* once the schedule is cancelled no next() call is left waiting for a
\* resolver that no fire will call.
C39_CancelLosesNothing ==
  [][\A i \in 1..MaxIterators :
       /\ (nextCalls' # nextCalls /\ results'[i] # results[i] /\ timedList[i] # <<>>) =>
            results'[i] = Append(results[i], Yielded(Head(timedList[i]), "list"))
       /\ cancelled'[i] => ~resolveResult'[i]]_vars

\* ---- C40
\* C40: abort() called while the agent is idle changes nothing, and an abort
\* requested in one run does not carry over: a run starts with the flag
\* clear, and while it is in progress the flag is set only if abort() was
\* called since it started.
C40_AbortDoesNotCarryOver ==
  /\ []((agentStatus # "idle" /\ abortRequested) => aborts > 0)
  /\ [][/\ (aborts' = aborts + 1 /\ agentStatus = "idle") =>
             UNCHANGED <<abortRequested, agentStatus, agentPc, agentState, eventStream>>
        /\ runId' # runId => ~abortRequested']_vars

\* The second run is in progress and not aborted, the first one having
\* finished aborted.
C40_Witness ==
  /\ runId = 2
  /\ agentStatus = "running"
  /\ agentPc = "llm"
  /\ ~abortRequested
  /\ RunFinishedEvent(1, "Aborted") \in Range(eventStream)

====
